---------------------------- MODULE Spec2Model ----------------------------
(***************************************************************************)
(* PromEmu emulation engine: the in-process event bus (events.py), the     *)
(* emulated metric (metrics.py) and the emulated host (hosts.py).          *)
(*                                                                         *)
(* Scheduling is asyncio's: single-threaded and cooperative.  A coroutine  *)
(* runs without interruption up to an await that really suspends; every    *)
(* action below is one such uninterrupted run.  Tasks created by the bus   *)
(* with asyncio.create_task start in creation order (the loop's ready      *)
(* queue is FIFO), which the variable ready models.                        *)
(*                                                                         *)
(* Numbers are integers.  Metric values are in thousandths, so rounding to *)
(* two decimal places is rounding to a multiple of 10.  An optional value  *)
(* (Python's None) is the empty sequence, a present value v is <<v>>.      *)
(***************************************************************************)
EXTENDS Integers, Sequences, FiniteSets, TLC

VARIABLES
    \* ---- EventBus
    subscribers,     \* EventBus._subscribers, as a set of [name, once, cb]
    ready,           \* callback tasks created by emit, not yet run (FIFO)
    emitted,         \* history: every event built by emit, in emit order
    delivered,       \* history: every callback invocation, in start order
    raisers,         \* the callbacks that raise when invoked
    subscribes,      \* history: number of subscribe calls made
    subscribing,     \* subscribe tasks created by the constructors, not yet run
    \* ---- clock
    now,             \* time.time()
    \* ---- EmulatedHost
    hcfg,            \* HostConfig
    is_running,      \* EmulatedHost._is_running
    is_pending,      \* EmulatedHost._is_pending
    host_start_time, \* EmulatedHost._host_start_time
    task,            \* EmulatedHost._task: 0 = attribute not set, else index in tasks
    tasks,           \* every _run_loop task created so far
    starts,          \* start() calls made so far
    stops,           \* stop() calls made so far
    last_metrics_data, \* EmulatedHost._last_metrics_data
    deliveries,      \* history: number of update_callback invocations, modulo 2
    quiesced,        \* history: a stop() returned and no start() began since it began
    \* ---- EmulatedMetric, one per metric name
    mcfg,            \* MetricConfig
    mvalue,          \* EmulatedMetric._value
    last_update,     \* EmulatedMetric._last_update
    mstart,          \* EmulatedMetric._start_time
    storage,         \* EmulatedMetric._scenario_state
    \* ---- environment
    env,             \* how many start() and stop() calls the host's owner makes in all
    \* ---- MetricsMixer
    mxcfg,           \* MixerConfig: hosts (the HostConfig list), push_interval, the
                     \* default job name and the cleanup flags
    mixer,           \* MetricsMixer: _is_running, _mixer_start_time, _job_hosts,
                     \* _merged_metrics, and whether __init__ has run and how it ended
    mhosts,          \* the EmulatedHost objects of _job_hosts, by host name
    loop_tasks,      \* tasks created by the mixer, not yet run (FIFO)
    push_task,       \* MetricsMixer._push_task, the _run_loop task
    supervisor,      \* the run_until_complete() call
    mstop,           \* the stop() call that passed the guard
    pushes,          \* history: the push attempts of the latest cycle, the cycle count,
                     \* and whether a push of an earlier cycle failed
    gateway,         \* the Pushgateway: the job groups it holds, and history: the
                     \* number of DELETE requests it got per job
    owner_calls,     \* history: number of start() and stop() calls the mixer's owner made
    mlog,            \* history: number of update_metrics_by_host calls, and the
                     \* duplicate warnings the latest one logged
    \* ---- Scenarios, called with the MetricContext of metric m1
    scenarios             \* the parameters the scenario is configured with, the emit tasks
                     \* it created that have not run yet, and history: what its
                     \* latest call did

busVars  == <<subscribers, ready, emitted, delivered, raisers, subscribes,
             subscribing>>
hostVars == <<hcfg, is_running, is_pending, host_start_time, task, tasks,
              starts, stops, last_metrics_data, deliveries, quiesced>>
metricVars == <<mcfg, mvalue, last_update, mstart, storage, env>>
mixerVars == <<mxcfg, mixer, mhosts, loop_tasks, push_task, supervisor, mstop, pushes,
               gateway, owner_calls, mlog>>
vars == <<subscribers, ready, emitted, delivered, raisers, subscribes, subscribing, now,
          hcfg, is_running, is_pending, host_start_time, task, tasks,
          starts, stops, last_metrics_data, deliveries, quiesced,
          mcfg, mvalue, last_update, mstart, storage, env,
          mxcfg, mixer, mhosts, loop_tasks, push_task, supervisor, mstop, pushes,
          gateway, owner_calls, mlog, scenarios>>

None == <<>>
Some(v) == <<v>>


(***************************************************************************)
(*                              EVENT BUS                                  *)
(***************************************************************************)

\* Bounds of the bus model.
MaxEmits == 2
MaxSubscribes == 2

EventNames == {"feature_on"}
Callbacks == {"cb1", "cb2"}

Sub(n, once, cb) == [name |-> n, once |-> once, cb |-> cb]

\* emit: `self._subscribers[event.name].copy()`, the snapshot taken at emit time.
Snapshot(subs, n) == {s \in subs : s.name = n}

\* Iteration orders of a set (Python iterates a set in no specified order).
Orders(S) ==
    {f \in [1..Cardinality(S) -> S] : \A i, j \in 1..Cardinality(S) : f[i] = f[j] => i = j}

\* subscribe: adds (once, callback) to the set of the event name.
SubsAfterSubscribe(subs, n, cb, once) == subs \cup {Sub(n, once, cb)}

\* unsubscribe: removes every (once, cb) pair of the callback, either flag.
SubsAfterUnsubscribe(subs, n, cb) == {s \in subs : ~(s.name = n /\ s.cb = cb)}

\* The task the loop runs next: create_task queues with call_soon, FIFO.
NextTaskLifo(q) == Len(q)
NextTask(q) == 1

RemoveAt(q, i) == [j \in 1..(Len(q) - 1) |-> IF j < i THEN q[j] ELSE q[j + 1]]

\* _handle_callback: `if once: await self.unsubscribe(event.name, callback)`.
SubsAfterHandle(subs, t) ==
    IF t.once THEN SubsAfterUnsubscribe(subs, t.name, t.cb) ELSE subs

\* _handle_callback: `if callback: await callback(event)`; the callback was
\* captured by the task at emit time and is not looked up again.
InvokesOnlyIfSubscribed(subs, t) == Sub(t.name, t.once, t.cb) \in subs
InvokesCallback(subs, t) == TRUE

\* A raising callback is caught inside its own task (except Exception: log);
\* the other tasks of the ready queue are untouched.
ReadyAfterRunAbortsOnError(q, i, raised) == IF raised THEN <<>> ELSE RemoveAt(q, i)
ReadyAfterRun(q, i, raised) == RemoveAt(q, i)

\* The tasks emit creates for event number ev of name n, one per snapshot
\* entry, in the iteration order chosen.
CallbackTasks(order, n, ev) ==
    [i \in DOMAIN order |-> [cb |-> order[i].cb, once |-> order[i].once, name |-> n, ev |-> ev]]

\* EventBus.emit(name, data, source): builds the event and creates one task per
\* subscriber of the snapshot; it awaits none of them.
\* (running is history: whether the emitting host was running at that moment.)
BusEmit(n, src, running) ==
    \E order \in Orders(Snapshot(subscribers, n)) :
        /\ emitted' = Append(emitted, [name |-> n, source |-> src,
                                       snap |-> Snapshot(subscribers, n),
                                       running |-> running])
        /\ ready' = ready \o CallbackTasks(order, n, Len(emitted) + 1)

ExternalEmits == Cardinality({i \in DOMAIN emitted : emitted[i].source = "ext"})

Subscribe(n, cb, once) ==
    /\ subscribes < MaxSubscribes
    /\ subscribes' = subscribes + 1
    /\ subscribers' = SubsAfterSubscribe(subscribers, n, cb, once)
    /\ UNCHANGED <<ready, emitted, delivered, raisers, subscribing, now, hostVars, metricVars, mixerVars, scenarios>>

Unsubscribe(n, cb) ==
    /\ subscribers' = SubsAfterUnsubscribe(subscribers, n, cb)
    /\ UNCHANGED <<ready, emitted, delivered, raisers, subscribes, subscribing, now, hostVars, metricVars, mixerVars, scenarios>>

Emit(n) ==
    /\ ExternalEmits < MaxEmits
    /\ BusEmit(n, "ext", FALSE)
    /\ UNCHANGED <<subscribers, delivered, raisers, subscribes, subscribing, now, hostVars, metricVars, mixerVars, scenarios>>

\* One callback task runs: _handle_callback up to and including the call of
\* the callback, which returns or raises.
RunCallback ==
    /\ ready # <<>>
    /\ LET i == NextTask(ready)
           t == ready[i]
           raised == t.cb \in raisers
       IN   /\ subscribers' = SubsAfterHandle(subscribers, t)
            /\ IF InvokesCallback(subscribers, t)
                 THEN /\ delivered' = Append(delivered,
                            [cb |-> t.cb, ev |-> t.ev, once |-> t.once,
                             live |-> Sub(t.name, t.once, t.cb) \in subscribers,
                             raised |-> raised, behind |-> t.ev < Len(emitted)])
                      /\ ready' = ReadyAfterRun(ready, i, raised)
                 ELSE /\ delivered' = delivered
                      /\ ready' = RemoveAt(ready, i)
    /\ UNCHANGED <<emitted, raisers, subscribes, subscribing, now, hostVars, metricVars, mixerVars, scenarios>>


\* ---- what the bus claims speak about
Pending(cb, once, ev) ==
    Cardinality({i \in DOMAIN ready :
        ready[i].cb = cb /\ ready[i].once = once /\ ready[i].ev = ev})
Delivered(cb, once, ev) ==
    Cardinality({i \in DOMAIN delivered :
        delivered[i].cb = cb /\ delivered[i].once = once /\ delivered[i].ev = ev})
EntriesOf(snap, cb) == {s \in snap : s.cb = cb}

\* C7: a callback subscribed with once=true is invoked at most once.  When
\* subscribe has been called a single time, there is a single subscription,
\* so a callback subscribed with once=true has been invoked at most once.
C7_OnceInvokedAtMostOnce ==
    subscribes = 1 =>
        \A cb \in Callbacks :
            Cardinality({i \in DOMAIN delivered :
                delivered[i].cb = cb /\ delivered[i].once}) <= 1

\* C8: an event emitted while cb holds one plain (once=false) subscription is
\* delivered to cb exactly once, whether or not cb was unsubscribed before
\* its task ran (the task is pending or has delivered, never lost, never
\* doubled); an event emitted while cb holds no subscription is not delivered
\* to cb.
C8_SubscribeEmitUnsubscribe ==
    \A e \in DOMAIN emitted, cb \in Callbacks :
        LET mine == EntriesOf(emitted[e].snap, cb)
        IN /\ mine = {Sub(emitted[e].name, FALSE, cb)}
                => Pending(cb, FALSE, e) + Delivered(cb, FALSE, e) = 1
           /\ Pending(cb, TRUE, e) + Delivered(cb, TRUE, e)
                = Cardinality({s \in mine : s.once})
           /\ mine = {}
                => Pending(cb, FALSE, e) + Delivered(cb, FALSE, e) = 0

\* C8 witness: cb was invoked for an event after its subscription had been
\* removed, and a later event, emitted with cb unsubscribed, created no task.
C8_Witness ==
    \E i \in DOMAIN delivered, e \in DOMAIN emitted :
        /\ ~delivered[i].once /\ ~delivered[i].live
        /\ e > delivered[i].ev
        /\ emitted[e].name = emitted[delivered[i].ev].name
        /\ EntriesOf(emitted[e].snap, delivered[i].cb) = {}
        /\ ready = <<>>

\* C9: when a callback raises, every other subscription of the event's
\* snapshot still gets exactly one task, pending or delivered, and the step
\* in which the callback raised changes the subscription set no more than a
\* returning callback would: nothing for a plain subscription, the callback's
\* own entries for a once subscription.
C9_SiblingsUnaffected ==
    \A i \in DOMAIN delivered :
        delivered[i].raised =>
            \A s \in emitted[delivered[i].ev].snap :
                Pending(s.cb, s.once, delivered[i].ev)
                  + Delivered(s.cb, s.once, delivered[i].ev) = 1

C9_RaiseStep ==
    /\ Len(delivered') = Len(delivered) + 1
    /\ delivered'[Len(delivered')].raised

C9_SubscriptionsKept ==
    C9_RaiseStep =>
        LET d == delivered'[Len(delivered')]
        IN /\ subscribers' \subseteq subscribers
           /\ \A s \in subscribers \ subscribers' : d.once /\ s.cb = d.cb

C9_RaisingCallbackIsolated ==
    []C9_SiblingsUnaffected /\ [][C9_SubscriptionsKept]_vars

\* C9 witness: a callback raised and a sibling of the same event was invoked
\* after it and returned.
C9_Witness ==
    \E i, j \in DOMAIN delivered :
        /\ i < j
        /\ delivered[i].ev = delivered[j].ev
        /\ delivered[i].cb # delivered[j].cb
        /\ delivered[i].raised /\ ~delivered[j].raised

\* C10: one subscriber's callbacks start in the order the events were emitted.
C10_DeliveryInEmitOrder ==
    \A i, j \in DOMAIN delivered :
        (i < j /\ delivered[i].cb = delivered[j].cb) => delivered[i].ev <= delivered[j].ev

\* C10 witness: two events were both pending for one callback and both have
\* been delivered to it.
C10_Witness ==
    \E i, j \in DOMAIN delivered :
        /\ i < j
        /\ delivered[i].cb = delivered[j].cb
        /\ delivered[i].behind
        /\ delivered[j].ev = delivered[i].ev + 1

(***************************************************************************)
(*                            EMULATED METRIC                              *)
(***************************************************************************)

Metrics == {"m1", "m2"}

\* StateStorage: a map from keys to values; clean() empties it.
StorageEmpty == [k \in {} |-> 0]
StorageGet(st, k, default) == IF k \in DOMAIN st THEN st[k] ELSE default
StorageSet(st, k, v) == [x \in (DOMAIN st) \cup {k} |-> IF x = k THEN v ELSE st[x]]

\* What a call of config.scenario does: return a number, return None, or raise.
Returns(v) == [kind |-> "value", v |-> v]
ReturnsNone == [kind |-> "none", v |-> 0]
Raises == [kind |-> "raise", v |-> 0]

\* `if self._value < value_range[0] ... elif self._value > value_range[1] ...`
ClampNoUpper(v, lo, hi) == IF v < lo THEN lo ELSE v
Clamp(v, lo, hi) == IF v < lo THEN lo ELSE IF v > hi THEN hi ELSE v

\* round(value, VALUE_DECIMAL_PLACES): to the nearest hundredth, which is the
\* nearest multiple of 10 thousandths; a tie goes to the even hundredth.
Round2(x) ==
    LET q == x \div 10
        r == x % 10
    IN IF r < 5 THEN 10 * q
       ELSE IF r > 5 THEN 10 * (q + 1)
       ELSE IF q % 2 = 0 THEN 10 * q ELSE 10 * (q + 1)

\* _update_value_by_scenario: the scenario's result; the prior value when no
\* scenario is configured or the scenario raised.
ScenarioResultLostOnRaise(c, value, out) ==
    IF c.has_scenario
      THEN (IF out.kind = "value" THEN Some(out.v) ELSE None)
      ELSE value
ScenarioResult(c, value, out) ==
    IF c.has_scenario /\ out.kind # "raise"
      THEN (IF out.kind = "none" THEN None ELSE Some(out.v))
      ELSE value

\* update_value, after the scenario: clamp to value_range, then round.
StoredValue(c, res) ==
    IF res = None THEN None ELSE Some(Round2(Clamp(res[1], c.min, c.max)))

\* update_value's time checks for a time-driven call at time t.
TimeGateReusesAtInterval(c, start, last, t) ==
    IF t < start THEN "before_start"
    ELSE IF c.ttl # None /\ t > start + c.ttl[1] THEN "expired"
    ELSE IF t - last <= c.update_interval THEN "reuse"
    ELSE "compute"
TimeGateIgnoresWindow(c, start, last, t) ==
    IF t - last < c.update_interval THEN "reuse" ELSE "compute"
TimeGate(c, start, last, t) ==
    IF t < start THEN "before_start"
    ELSE IF c.ttl # None /\ t > start + c.ttl[1] THEN "expired"
    ELSE IF t - last < c.update_interval THEN "reuse"
    ELSE "compute"

\* update_value: `self._last_update = current_time`, inside `if event is None`.
LastUpdateAlwaysNow(byEvent, last, t) == t
LastUpdateAfter(byEvent, last, t) == IF byEvent THEN last ELSE t

\* update_value(event): [ret, value, last] = the returned value, the new
\* _value and the new _last_update of metric m.
UpdateValue(m, byEvent, out, t) ==
    LET c == mcfg[m]
        gate == IF byEvent THEN "compute" ELSE TimeGate(c, mstart[m], last_update[m], t)
        new == StoredValue(c, ScenarioResult(c, mvalue[m], out))
    IN CASE gate \in {"before_start", "expired"} ->
              [ret |-> None, value |-> mvalue[m], last |-> last_update[m], computed |-> FALSE]
         [] gate = "reuse" ->
              [ret |-> mvalue[m], value |-> mvalue[m], last |-> last_update[m], computed |-> FALSE]
         [] OTHER ->
              [ret |-> new, value |-> new,
               last |-> LastUpdateAfter(byEvent, last_update[m], t), computed |-> TRUE]


(***************************************************************************)
(*                             EMULATED HOST                               *)
(***************************************************************************)

\* Bounds of the host model: start() and stop() calls made from outside (both
\* counted together), and how far the clock runs past the construction time.
MaxCalls == 3
Horizon == 2
\* time.time() when the host and its metrics are constructed.  It is epoch
\* time, far larger than any update_interval; _last_update starts at 0.0.
Clock0 == 3
MaxTime == Clock0 + Horizon

Finished == {"done", "cancelled"}

\* _run_loop: `time.time() - self._host_start_time > self.config.ttl`
TtlExpired(t0, ttl, t) == t - t0 > ttl

\* _run_loop: `while self.is_running`, then the TTL check and its `break`
LoopExitsOnTtlOnly(running, expired) == expired
LoopExits(running, expired) == ~running \/ expired

\* stop(): `self._is_running = False`
RunningAfterStopKept(r) == r
RunningAfterStop(r) == FALSE

\* start(): the state in which _run_loop's task is created and host_started is
\* emitted once the start_time delay is over (the delay is not re-checked).
NewTask == [pc |-> "created", wake |-> 0, cancel |-> FALSE, awaits |-> 0,
            ttl_seen |-> FALSE, stop_emits |-> 0, start_since |-> FALSE,
            ret_starts |-> -1]

\* asyncio's Task.cancel(): a finished task is left alone; a task that is
\* awaiting another task passes the cancellation on to it; any other task
\* gets CancelledError at its next step.
RECURSIVE CancelTask(_, _)
CancelTask(ts, k) ==
    IF ts[k].pc \in Finished THEN ts
    ELSE IF ts[k].pc = "await" /\ ts[ts[k].awaits].pc \notin Finished
           THEN CancelTask(ts, ts[k].awaits)
    ELSE [ts EXCEPT ![k].cancel = TRUE]

\* A start() call marks every stop() in progress: the host may be running
\* again by the time that stop() returns.
MarkStops(ss) ==
    [i \in DOMAIN ss |-> IF ss[i].pc = "await" THEN [ss[i] EXCEPT !.start_since = TRUE] ELSE ss[i]]
MarkTasks(ts) ==
    [i \in DOMAIN ts |-> IF ts[i].pc \in {"await", "await_self"}
                           THEN [ts[i] EXCEPT !.start_since = TRUE] ELSE ts[i]]

EmitHost(n) == BusEmit(n, "host", is_running')

\* start(), from `self._host_start_time = time.time()` on.
Launch ==
    /\ host_start_time' = now
    /\ task' = Len(tasks) + 1
    /\ EmitHost("host_started")

\* start() is called: up to the sleep of start_time, or to the end when
\* start_time is 0.
StartCall ==
    /\ Len(starts) + Len(stops) < env.calls
    /\ quiesced' = FALSE
    /\ stops' = MarkStops(stops)
    /\ IF is_running
         THEN /\ starts' = Append(starts, [pc |-> "done", wake |-> 0, began |-> FALSE])
              /\ tasks' = MarkTasks(tasks)
              /\ UNCHANGED <<is_running, host_start_time, task, emitted, ready>>
         ELSE /\ is_running' = TRUE
              /\ IF hcfg.start_time > 0
                   THEN /\ starts' = Append(starts, [pc |-> "delay",
                                wake |-> now + hcfg.start_time, began |-> TRUE])
                        /\ tasks' = MarkTasks(tasks)
                        /\ UNCHANGED <<host_start_time, task, emitted, ready>>
                   ELSE /\ starts' = Append(starts, [pc |-> "done", wake |-> 0, began |-> TRUE])
                        /\ tasks' = Append(MarkTasks(tasks), NewTask)
                        /\ Launch
    /\ UNCHANGED <<subscribers, delivered, raisers, subscribes, subscribing, now, hcfg, is_pending, last_metrics_data,
                   deliveries, metricVars, mixerVars, scenarios>>

\* start() resumes after `await asyncio.sleep(self.config.start_time)`.
StartWake(i) ==
    /\ starts[i].pc = "delay"
    /\ now >= starts[i].wake
    /\ starts' = [starts EXCEPT ![i].pc = "done"]
    /\ tasks' = Append(tasks, NewTask)
    /\ UNCHANGED is_running
    /\ Launch
    /\ UNCHANGED <<subscribers, delivered, raisers, subscribes, subscribing, now, hcfg, is_pending, stops, last_metrics_data,
                   deliveries, quiesced, metricVars, mixerVars, scenarios>>

\* stop(), from `self._is_running = False` to `await self._task`, run by the
\* _run_loop task t (its `finally: await self.stop()`) while the host is
\* running; base is the tasks function to start from and seen tells whether
\* the task got here by observing the TTL.
OwnStop(t, seen, base) ==
    LET k == task
        me == [base[t] EXCEPT !.ttl_seen = seen, !.start_since = FALSE]
    IN /\ is_running' = RunningAfterStop(is_running)
       /\ storage' = [m \in Metrics |-> StorageEmpty]
       /\ IF k = t
            THEN \* the task cancels and awaits itself: it gets CancelledError
                 \* at its next step, inside stop()'s try
                 /\ tasks' = [base EXCEPT ![t] = [me EXCEPT !.pc = "await_self", !.cancel = TRUE]]
                 /\ UNCHANGED <<emitted, ready, quiesced>>
            ELSE IF base[k].pc \in Finished
            THEN /\ tasks' = [base EXCEPT ![t] = [me EXCEPT !.pc = "done",
                                                    !.stop_emits = @ + 1,
                                                    !.ret_starts = Len(starts)]]
                 /\ EmitHost("host_stopped")
                 /\ quiesced' = TRUE
            ELSE /\ tasks' = [CancelTask(base, k) EXCEPT
                                 ![t] = [me EXCEPT !.pc = "await", !.awaits = k]]
                 /\ UNCHANGED <<emitted, ready, quiesced>>

\* `finally: await self.stop()` of task t; stop() returns at once when the
\* host is not running.
TaskFinally(t, seen) ==
    IF is_running
      THEN OwnStop(t, seen, tasks)
      ELSE /\ tasks' = [tasks EXCEPT ![t].pc = "done", ![t].ret_starts = Len(starts)]
           /\ quiesced' = TRUE
           /\ UNCHANGED <<is_running, storage, emitted, ready>>

\* _update_metrics: every metric's update_value() in declaration order; a
\* counter publishes its running total kept in its storage.
PublishedValueOnly(m, u) == u.ret[1]
Published(m, u) ==
    IF mcfg[m].type = "counter"
      THEN StorageGet(storage[m], "counter_total", 0) + u.ret[1]
      ELSE u.ret[1]

\* One uninterrupted run of _run_loop's task t: from the start of the task, or
\* from the end of its sleep, through one iteration to the next sleep; or out
\* of the loop and through `finally` to the end or to stop()'s await.
TaskRun(t) ==
    /\ \/ tasks[t].pc = "created"
       \/ tasks[t].pc = "sleep" /\ now >= tasks[t].wake
    /\ ~tasks[t].cancel
    /\ IF LoopExits(is_running, TtlExpired(host_start_time, hcfg.ttl, now))
         THEN /\ TaskFinally(t, is_running)
              /\ UNCHANGED <<last_metrics_data, deliveries, mvalue, last_update>>
         ELSE \E outs \in [Metrics -> UNION {mcfg[m].outs : m \in Metrics}],
                 d \in hcfg.lo..hcfg.hi, err \in BOOLEAN :
              LET u == [m \in Metrics |-> UpdateValue(m, FALSE, outs[m], now)]
                  batch == {m \in Metrics : u[m].ret # None}
              IN /\ \A m \in Metrics : outs[m] \in mcfg[m].outs
                 /\ mvalue' = [m \in Metrics |-> u[m].value]
                 /\ last_update' = [m \in Metrics |-> u[m].last]
                 /\ last_metrics_data' = [m \in batch |-> Published(m, u[m])]
                 /\ deliveries' = IF batch # {} THEN 1 - deliveries ELSE deliveries
                 /\ err => batch # {}
                 /\ IF err
                      THEN \* update_callback raised: `except Exception`, then finally
                           OwnStop(t, FALSE, tasks)
                      ELSE /\ storage' = [m \in Metrics |->
                                 IF m \in batch /\ mcfg[m].type = "counter"
                                   THEN StorageSet(storage[m], "counter_total", Published(m, u[m]))
                                   ELSE storage[m]]
                           /\ tasks' = [tasks EXCEPT ![t].pc = "sleep", ![t].wake = now + d]
                           /\ UNCHANGED <<is_running, emitted, ready, quiesced>>
    /\ UNCHANGED <<subscribers, delivered, raisers, subscribes, subscribing, now, hcfg, is_pending, host_start_time, task,
                   starts, stops, mcfg, mstart, env, mixerVars, scenarios>>

\* Task t is given CancelledError: before its first step the coroutine never
\* runs; in its sleep, `except asyncio.CancelledError` and then `finally`.
TaskCancelled(t) ==
    /\ tasks[t].pc \in {"created", "sleep"}
    /\ tasks[t].cancel
    /\ IF tasks[t].pc = "created"
         THEN /\ tasks' = [tasks EXCEPT ![t].pc = "cancelled"]
              /\ UNCHANGED <<is_running, storage, emitted, ready, quiesced>>
         ELSE TaskFinally(t, FALSE)
    /\ UNCHANGED <<subscribers, delivered, raisers, subscribes, subscribing, now, hcfg, is_pending, host_start_time, task,
                   starts, stops, last_metrics_data, deliveries, mcfg, mvalue,
                   last_update, mstart, env, mixerVars, scenarios>>

\* stop() run by task t resumes after `await self._task` (with the awaited
\* task's result or with CancelledError, which stop() catches) and emits
\* host_stopped.
TaskResume(t) ==
    /\ \/ tasks[t].pc = "await_self"
       \/ tasks[t].pc = "await" /\ tasks[tasks[t].awaits].pc \in Finished
    /\ tasks' = [tasks EXCEPT ![t].pc = "done", ![t].stop_emits = @ + 1,
                              ![t].ret_starts = Len(starts)]
    /\ UNCHANGED is_running
    /\ EmitHost("host_stopped")
    /\ quiesced' = ~tasks[t].start_since
    /\ UNCHANGED <<subscribers, delivered, raisers, subscribes, subscribing, now, hcfg, is_pending, host_start_time, task,
                   starts, stops, last_metrics_data, deliveries, metricVars, mixerVars, scenarios>>

NewStop == [pc |-> "done", awaits |-> 0, ran |-> FALSE, emits |-> 0,
            cleaned |-> FALSE, start_since |-> FALSE, ret_starts |-> -1]

\* stop() is called from outside: up to `await self._task`, or to the end.
StopCall ==
    /\ Len(starts) + Len(stops) < env.calls
    /\ IF ~is_running
         THEN /\ stops' = Append(stops, [NewStop EXCEPT !.ret_starts = Len(starts)])
              /\ quiesced' = TRUE
              /\ UNCHANGED <<is_running, storage, tasks, emitted, ready>>
         ELSE /\ is_running' = RunningAfterStop(is_running)
              /\ IF task = 0
                   THEN \* `if self._task:` before any start() got to create the
                        \* task: the attribute does not exist, AttributeError
                        /\ stops' = Append(stops, [NewStop EXCEPT !.pc = "raised", !.ran = TRUE])
                        /\ UNCHANGED <<storage, tasks, emitted, ready, quiesced>>
                   ELSE /\ storage' = [m \in Metrics |-> StorageEmpty]
                        /\ tasks' = CancelTask(tasks, task)
                        /\ IF tasks[task].pc \in Finished
                             THEN /\ stops' = Append(stops, [NewStop EXCEPT !.ran = TRUE,
                                                   !.emits = 1, !.cleaned = TRUE,
                                                   !.ret_starts = Len(starts)])
                                  /\ EmitHost("host_stopped")
                                  /\ quiesced' = TRUE
                             ELSE /\ stops' = Append(stops, [NewStop EXCEPT !.pc = "await",
                                                   !.awaits = task, !.ran = TRUE,
                                                   !.cleaned = TRUE])
                                  /\ UNCHANGED <<emitted, ready, quiesced>>
    /\ UNCHANGED <<subscribers, delivered, raisers, subscribes, subscribing, now, hcfg, is_pending, host_start_time, task,
                   starts, last_metrics_data, deliveries, mcfg, mvalue, last_update, mstart, env, mixerVars, scenarios>>

\* stop() called from outside resumes after `await self._task`.
StopResume(i) ==
    /\ stops[i].pc = "await"
    /\ tasks[stops[i].awaits].pc \in Finished
    /\ stops' = [stops EXCEPT ![i].pc = "done", ![i].emits = @ + 1,
                              ![i].ret_starts = Len(starts)]
    /\ UNCHANGED is_running
    /\ EmitHost("host_stopped")
    /\ quiesced' = ~stops[i].start_since
    /\ UNCHANGED <<subscribers, delivered, raisers, subscribes, subscribing, now, hcfg, is_pending, host_start_time, task,
                   tasks, starts, last_metrics_data, deliveries, metricVars, mixerVars, scenarios>>

\* The metric's bus handler runs: _handle_event calls update_value(event).
MetricEvent(m) ==
    /\ \E out \in mcfg[m].outs :
         LET u == UpdateValue(m, TRUE, out, now)
         IN /\ mvalue' = [mvalue EXCEPT ![m] = u.value]
            /\ last_update' = [last_update EXCEPT ![m] = u.last]
    /\ UNCHANGED <<busVars, now, hostVars, mcfg, mstart, storage, env, mixerVars, scenarios>>

\* EmulatedHost.__init__: the subscribe tasks created with asyncio.create_task,
\* first by each metric's constructor for its listen_events, in declaration
\* order, then by the host for its own.
MetricOrder == <<"m1", "m2">>
HostHandler == "host"
Handlers == Metrics \cup {HostHandler}
TasksOf(cb, names) == [i \in DOMAIN names |-> [name |-> names[i], cb |-> cb]]
RECURSIVE MetricTasks(_, _)
MetricTasks(mc, i) ==
    IF i > Len(MetricOrder) THEN <<>>
    ELSE TasksOf(MetricOrder[i], mc[MetricOrder[i]].listen_events) \o MetricTasks(mc, i + 1)
SubscribeTasks(hc, mc) == MetricTasks(mc, 1) \o TasksOf(HostHandler, hc.listen_events)

\* A subscribe task of a constructor runs: _subscribe_to_event.
RunSubscribe ==
    /\ subscribing # <<>>
    /\ subscribers' = SubsAfterSubscribe(subscribers, Head(subscribing).name,
                                         Head(subscribing).cb, FALSE)
    /\ subscribing' = Tail(subscribing)
    /\ subscribes' = subscribes + 1
    /\ UNCHANGED <<ready, emitted, delivered, raisers, now, hostVars, metricVars, mixerVars, scenarios>>

\* The callback task of a handler of the host or of one of its metrics runs:
\* _handle_callback calls the host's _handle_event, which calls the configured
\* handler, or the metric's _handle_event, which calls update_value(event).
\* The subscribe tasks were created first and have run by then.
RunHandler ==
    /\ subscribing = <<>>
    /\ ready # <<>>
    /\ LET i == NextTask(ready)
           t == ready[i]
       IN /\ t.cb \in Handlers
          /\ subscribers' = SubsAfterHandle(subscribers, t)
          /\ delivered' = Append(delivered,
                [cb |-> t.cb, ev |-> t.ev, once |-> t.once,
                 live |-> Sub(t.name, t.once, t.cb) \in subscribers,
                 raised |-> FALSE, behind |-> t.ev < Len(emitted)])
          /\ ready' = RemoveAt(ready, i)
          /\ IF t.cb \in Metrics
               THEN \E out \in mcfg[t.cb].outs :
                      LET u == UpdateValue(t.cb, TRUE, out, now)
                      IN /\ mvalue' = [mvalue EXCEPT ![t.cb] = u.value]
                         /\ last_update' = [last_update EXCEPT ![t.cb] = u.last]
               ELSE UNCHANGED <<mvalue, last_update>>
    /\ UNCHANGED <<emitted, raisers, subscribes, subscribing, now, hostVars, mcfg, mstart,
                   storage, env, mixerVars, scenarios>>

AdvanceTime ==
    /\ now < MaxTime
    /\ now' = now + 1
    /\ UNCHANGED <<busVars, hostVars, metricVars, mixerVars, scenarios>>

(***************************************************************************)
(*                               MetricsMixer                              *)
(***************************************************************************)
\* The mixer is modelled with its hosts seen through what it uses of them:
\* start(), stop(), is_running, is_pending, and the exit of a host's own loop
\* (on its TTL or on an error).  The hosts of the mixer have start_time 0.
\* A host is identified by the position of its HostConfig in config.hosts.

\* Bounds of the mixer model: the batches the hosts deliver in all, and the
\* longest host list a mixer is constructed from.
MaxDeliveries == 3
MaxHosts == 3

MixerHosts == DOMAIN mxcfg.hosts

\* _get_job_name
JobName(c, h) ==
    IF c.hosts[h].job_name = "" THEN c.default_job_name ELSE c.hosts[h].job_name

\* _setup_job_grouping: `host_config.name not in host_names.get(job_name, [])`
\* fails, hs being the hosts already grouped under the job of host i.
NeverDuplicate(c, hs, i) == FALSE
IsDuplicate(c, hs, i) == \E k \in DOMAIN hs : c.hosts[hs[k]].name = c.hosts[i].name

\* _setup_job_grouping over the first i hosts: the keys of _job_registries in
\* insertion order, _job_hosts, and whether MixerError was raised.
RECURSIVE SetupJobGrouping(_, _)
SetupJobGrouping(c, i) ==
    IF i = 0 THEN [error |-> FALSE, jobs |-> <<>>, job_hosts |-> <<>>]
    ELSE LET g == SetupJobGrouping(c, i - 1)
             j == JobName(c, i)
             known == \E k \in DOMAIN g.jobs : g.jobs[k] = j
             hs == IF known THEN g.job_hosts[j] ELSE <<>>
         IN IF g.error THEN g
            ELSE IF IsDuplicate(c, hs, i) THEN [g EXCEPT !.error = TRUE]
            ELSE [error |-> FALSE,
                  jobs |-> IF known THEN g.jobs ELSE Append(g.jobs, j),
                  job_hosts |-> [x \in DOMAIN g.job_hosts \cup {j} |->
                                    IF x = j THEN Append(hs, i) ELSE g.job_hosts[x]]]

Jobs(c) == SetupJobGrouping(c, Len(c.hosts)).jobs
JobSet(c) == {Jobs(c)[k] : k \in DOMAIN Jobs(c)}

\* _job_hosts[j], as hosts in order
JobHosts(c, j) == SetupJobGrouping(c, Len(c.hosts)).job_hosts[j]

\* `[host.config.name for host in self._job_hosts[job_name]]`
HostNames(c, hs) == [k \in DOMAIN hs |-> c.hosts[hs[k]].name]

\* `for hosts in self._job_hosts.values(): for host in hosts`
RECURSIVE HostsByJob(_, _)
HostsByJob(c, k) ==
    IF k = 0 THEN <<>> ELSE HostsByJob(c, k - 1) \o JobHosts(c, Jobs(c)[k])

\* __init__: `self._ttl = max(host.start_time + host.ttl for host in config.hosts)`
MixerTtl(c) ==
    LET S == {c.hosts[h].start_time + c.hosts[h].ttl : h \in DOMAIN c.hosts}
    IN CHOOSE x \in S : \A y \in S : y =< x

\* run_until_complete: `if self._mixer_start_time + self._ttl < time.time()`
MixerTtlNeverElapsed(t0, ttl, t) == FALSE
MixerTtlElapsed(t0, ttl, t) == t0 + ttl < t

\* run_until_complete: the `while` condition
LoopHolds(running, hs) ==
    running /\ \E h \in DOMAIN hs : hs[h].is_running \/ hs[h].is_pending

\* run_until_complete: whether the loop goes to its sleep at time t
SupervisorGoesOn(mx, hs, c, t) ==
    /\ LoopHolds(mx.is_running, hs)
    /\ ~MixerTtlElapsed(mx.mixer_start_time, MixerTtl(c), t)

\* _setup_prometheus_metrics_for_job(j): _merged_metrics[j], where every
\* metric name of the job's hosts gets its Prometheus metric (prom: the value
\* per label set) and no host entry yet; nothing changes when it is set up.
JobMetricsAfterSetup(c, mmj, j) ==
    IF DOMAIN mmj # {} THEN mmj
    ELSE [m \in UNION {c.hosts[JobHosts(c, j)[k]].metrics : k \in DOMAIN JobHosts(c, j)} |->
             [hosts |-> <<>>, prom |-> <<>>]]

\* start(): `for job_name in self._job_registries.keys(): self._setup_...`
MergedAfterSetup(c, mm) ==
    [j \in DOMAIN mm |-> JobMetricsAfterSetup(c, mm[j], j)]

\* The tasks start() and stop() create, one per host
HostTasks(c, op) ==
    [i \in DOMAIN HostsByJob(c, Len(Jobs(c))) |->
        [op |-> op, host |-> HostsByJob(c, Len(Jobs(c)))[i]]]

\* _push_all_jobs: the push attempts of one cycle, where ok[j] tells whether
\* push_to_gateway succeeds for job j; a failure is caught inside the loop body.
RECURSIVE PushAllJobsAbortsOnFailure(_, _)
PushAllJobsAbortsOnFailure(order, ok) ==
    IF order = <<>> THEN <<>>
    ELSE IF ok[Head(order)]
      THEN <<[job |-> Head(order), ok |-> TRUE]>> \o PushAllJobsAbortsOnFailure(Tail(order), ok)
      ELSE <<[job |-> Head(order), ok |-> FALSE]>>
PushAllJobs(order, ok) ==
    [i \in DOMAIN order |-> [job |-> order[i], ok |-> ok[order[i]]]]

\* _push_all_jobs: the metrics_pushed event of job j
PushedEvent(c, mx, subs, j) ==
    [name |-> "metrics_pushed", source |-> "mixer-" \o j,
     snap |-> Snapshot(subs, "metrics_pushed"), running |-> FALSE,
     data |-> [job_name |-> j, hosts |-> HostNames(c, JobHosts(c, j)),
               metrics_count |-> Cardinality(DOMAIN mx.merged_metrics[j])]]

\* _push_all_jobs: the events of one cycle, emitted after a successful push only
PushedEventsForAll(c, mx, subs, attempts) ==
    [i \in DOMAIN attempts |-> PushedEvent(c, mx, subs, attempts[i].job)]
PushedEvents(c, mx, subs, attempts) ==
    LET good == SelectSeq(attempts, LAMBDA a : a.ok)
    IN [i \in DOMAIN good |-> PushedEvent(c, mx, subs, good[i].job)]

\* The callback tasks of events number first+1 .. first+n, in emit order
RECURSIVE PushedTasks(_, _, _)
PushedTasks(order, first, n) ==
    IF n = 0 THEN <<>>
    ELSE PushedTasks(order, first, n - 1) \o CallbackTasks(order, "metrics_pushed", first + n)

\* One call of _push_all_jobs
PushCycle ==
    \E ok \in [JobSet(mxcfg) -> BOOLEAN] :
    \E order \in Orders(Snapshot(subscribers, "metrics_pushed")) :
        LET attempts == PushAllJobs(Jobs(mxcfg), ok)
            evs == PushedEvents(mxcfg, mixer, subscribers, attempts)
        IN /\ pushes' = [cycle |-> pushes.cycle + 1, attempts |-> attempts,
                         after_failure |-> pushes.after_failure
                                           \/ \E i \in DOMAIN pushes.attempts : ~pushes.attempts[i].ok]
           /\ emitted' = emitted \o evs
           /\ ready' = ready \o PushedTasks(order, Len(emitted), Len(evs))
           /\ gateway' = [gateway EXCEPT !.jobs = @ \cup {j \in JobSet(mxcfg) : ok[j]}]

\* _run_loop from its `while self.is_running` test to its next suspension:
\* a push cycle and the sleep, or the end of the task (its `finally: await
\* self.stop()` returns at once, the mixer being stopped).
PushLoop ==
    IF mixer.is_running
      THEN /\ PushCycle
           /\ push_task' = [pc |-> "sleeping", wake |-> now + mxcfg.push_interval,
                            cancel |-> FALSE]
      ELSE /\ push_task' = [push_task EXCEPT !.pc = "done"]
           /\ UNCHANGED <<pushes, emitted, ready, gateway>>

\* One DELETE request for job j, which fails or removes the job's group.
DeleteFromGateway(gw, j, failed) ==
    [jobs |-> IF failed THEN gw.jobs ELSE gw.jobs \ {j},
     deletes |-> [gw.deletes EXCEPT ![j] = @ + 1]]

\* cleanup_all_jobs: when the GET of the gateway's metrics succeeds, one
\* DELETE for every job the gateway holds, each in its own try/except; fails
\* are the jobs whose DELETE fails.
CleanupAllJobs(gw, get_ok, fails) ==
    IF ~get_ok THEN gw
    ELSE [jobs |-> gw.jobs \cap fails,
          deletes |-> [j \in DOMAIN gw.deletes |->
                          gw.deletes[j] + (IF j \in gw.jobs THEN 1 ELSE 0)]]

\* start(): `if self.config.cleanup_on_start: await self.cleanup_all_jobs()`
StartCleanupAlways(c, gw, get_ok, fails) == CleanupAllJobs(gw, get_ok, fails)
StartCleanup(c, gw, get_ok, fails) ==
    IF c.cleanup_on_start THEN CleanupAllJobs(gw, get_ok, fails) ELSE gw

\* cleanup_mixer_jobs: one delete_from_gateway for every key of
\* _job_registries, each in its own try/except.
RECURSIVE CleanupMixerJobsAbortsOnFailure(_, _, _)
CleanupMixerJobsAbortsOnFailure(order, gw, fails) ==
    IF order = <<>> THEN gw
    ELSE IF Head(order) \in fails THEN DeleteFromGateway(gw, Head(order), TRUE)
    ELSE CleanupMixerJobsAbortsOnFailure(Tail(order), DeleteFromGateway(gw, Head(order), FALSE), fails)
RECURSIVE CleanupMixerJobs(_, _, _)
CleanupMixerJobs(order, gw, fails) ==
    IF order = <<>> THEN gw
    ELSE CleanupMixerJobs(Tail(order), DeleteFromGateway(gw, Head(order), Head(order) \in fails), fails)

\* stop(): `if self.config.cleanup_on_finish: await self.cleanup_mixer_jobs()`
FinishCleanup(c, gw, fails) ==
    IF c.cleanup_on_finish THEN CleanupMixerJobs(Jobs(c), gw, fails) ELSE gw

\* What the gateway may answer to the requests of a cleanup
GetAnswers(flag) == IF flag THEN BOOLEAN ELSE {TRUE}
DeleteFailures(flag, jobs) == IF flag THEN SUBSET jobs ELSE {{}}

\* stop(), from the guard to `await asyncio.gather(...)`, called by
\* run_until_complete's `finally`; lt is the task queue to append to.
SupervisorStops(mx, lt) ==
    IF mx.is_running
      THEN /\ mixer' = [mx EXCEPT !.is_running = FALSE]
           /\ loop_tasks' = lt \o HostTasks(mxcfg, "host_stop")
           /\ mstop' = [pc |-> "gather", waiting |-> MixerHosts, by |-> "supervisor"]
           /\ supervisor' = [supervisor EXCEPT !.pc = "stopping"]
      ELSE /\ mixer' = mx
           /\ loop_tasks' = lt
           /\ supervisor' = [supervisor EXCEPT !.pc = "done"]
           /\ UNCHANGED mstop

\* run_until_complete from the loop test on, given the mixer and task queue
Supervise(mx, lt) ==
    IF SupervisorGoesOn(mx, mhosts, mxcfg, now)
      THEN /\ mixer' = mx
           /\ loop_tasks' = lt
           /\ supervisor' = [pc |-> "sleeping", wake |-> now + 1]
           /\ UNCHANGED mstop
      ELSE SupervisorStops(mx, lt)

\* start(), past its guard: the mixer and the task queue it leaves
StartedMixer ==
    [mixer EXCEPT !.is_running = TRUE, !.mixer_start_time = now,
                  !.merged_metrics = MergedAfterSetup(mxcfg, @)]
StartedTasks ==
    loop_tasks \o HostTasks(mxcfg, "host_start") \o <<[op |-> "push", host |-> 0]>>

\* start(), past its guard: the cleanup and the new push task
Starts ==
    /\ \E get_ok \in GetAnswers(mxcfg.cleanup_on_start) :
       \E fails \in DeleteFailures(mxcfg.cleanup_on_start, gateway.jobs) :
           gateway' = StartCleanup(mxcfg, gateway, get_ok, fails)
    /\ push_task' = [pc |-> "created", wake |-> 0, cancel |-> FALSE]

\* run_until_complete() is called: start(), then the loop up to its sleep.
RunUntilComplete ==
    /\ supervisor.pc = "idle"
    /\ mixer.built = "yes"
    /\ ~mixer.is_running
    /\ Starts
    /\ Supervise(StartedMixer, StartedTasks)
    /\ UNCHANGED <<busVars, now, hostVars, metricVars, mxcfg, mhosts, pushes, owner_calls, mlog, scenarios>>

\* The owner calls start(); it awaits a stop() it called before calling
\* start() again.
MixerStartCall ==
    /\ mixer.built = "yes"
    /\ owner_calls < MaxCalls
    /\ mstop.pc \notin {"gather", "await_push"}
    /\ owner_calls' = owner_calls + 1
    /\ IF mixer.is_running
         THEN UNCHANGED <<mixer, loop_tasks, push_task, gateway>>
         ELSE /\ Starts
              /\ mixer' = StartedMixer
              /\ loop_tasks' = StartedTasks
    /\ UNCHANGED <<busVars, now, hostVars, metricVars, mxcfg, mhosts, supervisor, mstop,
                   pushes, mlog, scenarios>>

\* The owner calls stop(): up to `await asyncio.gather(...)`, or to the
\* return at the guard.
MixerStopCall ==
    /\ mixer.built = "yes"
    /\ owner_calls < MaxCalls
    /\ owner_calls' = owner_calls + 1
    /\ IF mixer.is_running
         THEN /\ mixer' = [mixer EXCEPT !.is_running = FALSE]
              /\ loop_tasks' = loop_tasks \o HostTasks(mxcfg, "host_stop")
              /\ mstop' = [pc |-> "gather", waiting |-> MixerHosts, by |-> "owner"]
         ELSE UNCHANGED <<mixer, loop_tasks, mstop>>
    /\ UNCHANGED <<busVars, now, hostVars, metricVars, mxcfg, mhosts, push_task, supervisor,
                   pushes, gateway, mlog, scenarios>>

\* run_until_complete wakes from `await asyncio.sleep(1.0)`.
SupervisorWake ==
    /\ supervisor.pc = "sleeping"
    /\ now >= supervisor.wake
    /\ Supervise(mixer, loop_tasks)
    /\ UNCHANGED <<busVars, now, hostVars, metricVars, mxcfg, mhosts, push_task, pushes,
                   gateway, owner_calls, mlog, scenarios>>

\* host.stop(): `self._is_running = False`, which a host in its start_time
\* delay gets as well.
HostStoppedUnlessDelayed(hs) == IF hs.pc = "delay" THEN hs ELSE [hs EXCEPT !.is_running = FALSE]
HostStopped(hs) == [hs EXCEPT !.is_running = FALSE]

\* The task of host.start() runs: to the sleep of start_time, or to the end
\* when start_time is 0.  A host with a start_time delay is started once.
HostStartTask ==
    /\ loop_tasks # <<>>
    /\ Head(loop_tasks).op = "host_start"
    /\ LET h == Head(loop_tasks).host
       IN IF mhosts[h].is_running
            THEN UNCHANGED <<mhosts, emitted, ready>>
            ELSE IF mxcfg.hosts[h].start_time > 0
            THEN /\ mhosts' = [mhosts EXCEPT ![h].is_running = TRUE, ![h].pc = "delay",
                                             ![h].wake = now + mxcfg.hosts[h].start_time]
                 /\ UNCHANGED <<emitted, ready>>
            ELSE /\ mhosts' = [mhosts EXCEPT ![h].is_running = TRUE, ![h].pc = "looping",
                                             ![h].host_start_time = now,
                                             ![h].has_task = TRUE]
                 /\ BusEmit("host_started", mxcfg.hosts[h].name, TRUE)
    /\ loop_tasks' = Tail(loop_tasks)
    /\ UNCHANGED <<subscribers, delivered, raisers, subscribes, subscribing, now, hostVars,
                   metricVars, mxcfg, mixer, push_task, supervisor, mstop, pushes,
                   gateway, owner_calls, mlog, scenarios>>

\* host.start() of host h resumes after `await asyncio.sleep(start_time)`: the
\* loop task is created whatever happened during the delay; on a host that
\* was stopped meanwhile it finds `while self.is_running` false and ends.
HostStartWake(h) ==
    /\ mhosts[h].pc = "delay"
    /\ now >= mhosts[h].wake
    /\ mhosts' = [mhosts EXCEPT ![h].pc = IF mhosts[h].is_running THEN "looping" ELSE "exited",
                                ![h].host_start_time = now,
                                ![h].has_task = TRUE]
    /\ BusEmit("host_started", mxcfg.hosts[h].name, mhosts[h].is_running)
    /\ UNCHANGED <<subscribers, delivered, raisers, subscribes, subscribing, now, hostVars,
                   metricVars, mxcfg, mixer, loop_tasks, push_task, supervisor, mstop, pushes,
                   gateway, owner_calls, mlog, scenarios>>

\* The host's _run_loop leaves its loop, on its TTL or on an error, and its
\* `finally: await self.stop()` stops the host.
HostLoopExit(h, why) ==
    /\ mhosts[h].pc = "looping"
    /\ mhosts[h].is_running
    /\ why = "ttl" => TtlExpired(mhosts[h].host_start_time, mxcfg.hosts[h].ttl, now)
    /\ mhosts' = [mhosts EXCEPT ![h].is_running = FALSE, ![h].pc = "exited"]
    /\ BusEmit("host_stopped", mxcfg.hosts[h].name, FALSE)
    /\ UNCHANGED <<subscribers, delivered, raisers, subscribes, subscribing, now, hostVars,
                   metricVars, mxcfg, mixer, loop_tasks, push_task, supervisor, mstop, pushes,
                   gateway, owner_calls, mlog, scenarios>>

\* The task of host.stop() runs, and gather() takes its result.
HostStopTask ==
    /\ loop_tasks # <<>>
    /\ Head(loop_tasks).op = "host_stop"
    /\ LET h == Head(loop_tasks).host
       IN /\ IF mhosts[h].is_running /\ mhosts[h].has_task
               THEN /\ mhosts' = [mhosts EXCEPT ![h] =
                                      [HostStopped(@) EXCEPT !.pc =
                                          IF @ = "delay" THEN "delay" ELSE "exited"]]
                    /\ BusEmit("host_stopped", mxcfg.hosts[h].name, FALSE)
               ELSE IF mhosts[h].is_running
               THEN \* `if self._task:` before start() created the task:
                    \* AttributeError, which gather() keeps as a result
                    /\ mhosts' = [mhosts EXCEPT ![h] = HostStopped(@)]
                    /\ UNCHANGED <<emitted, ready>>
               ELSE UNCHANGED <<mhosts, emitted, ready>>
          /\ mstop' = [mstop EXCEPT !.waiting = @ \ {h}]
    /\ loop_tasks' = Tail(loop_tasks)
    /\ UNCHANGED <<subscribers, delivered, raisers, subscribes, subscribing, now, hostVars,
                   metricVars, mxcfg, mixer, push_task, supervisor, pushes,
                   gateway, owner_calls, mlog, scenarios>>

\* update_metrics_by_host: `for host in self.config.hosts: if host.name ==
\* host_name`, the first HostConfig of that name
HostConfigNamed(c, h) ==
    CHOOSE i \in DOMAIN c.hosts :
        /\ c.hosts[i].name = c.hosts[h].name
        /\ \A k \in DOMAIN c.hosts : c.hosts[k].name = c.hosts[h].name => i =< k

\* update_metrics_by_host: the hosts other than `name` whose entry for the
\* metric has labels equal to the delivered ones; a warning is logged for each.
Duplicates(entries, name, labels) ==
    {g \in DOMAIN entries : g # name /\ entries[g].labels = labels}

\* update_metrics_by_host for one metric of the job: the host's entry and the
\* Prometheus value of the label set are written.
MetricAfterUpdate(mt, name, labels, v) ==
    [hosts |-> [g \in DOMAIN mt.hosts \cup {name} |->
                   IF g = name THEN [value |-> v, labels |-> labels] ELSE mt.hosts[g]],
     prom |-> [l \in DOMAIN mt.prom \cup {labels} |->
                   IF l = labels THEN v ELSE mt.prom[l]]]

\* update_metrics_by_host(name of h, labels of h, data), data giving the value
\* v to every metric of host h: _merged_metrics and the warnings logged, as
\* pairs of metric and other host.
UpdateMetricsByHost(c, mm, h, v) ==
    LET j == JobName(c, HostConfigNamed(c, h))
        name == c.hosts[h].name
        labels == c.hosts[h].labels
        mmj == JobMetricsAfterSetup(c, mm[j], j)
        known == c.hosts[h].metrics \cap DOMAIN mmj
    IN [job |-> j,
        warned |-> {<<m, g>> \in known \X {c.hosts[k].name : k \in DOMAIN c.hosts} :
                        g \in Duplicates(mmj[m].hosts, name, labels)},
        merged |-> [mm EXCEPT ![j] = [m \in DOMAIN mmj |->
                                         IF m \in known
                                           THEN MetricAfterUpdate(mmj[m], name, labels, v)
                                           ELSE mmj[m]]]]

\* A tick of host h's loop delivers a batch to the mixer's update callback.
HostDelivers(h, v) ==
    /\ mhosts[h].pc = "looping"
    /\ mhosts[h].is_running
    /\ mlog.calls < MaxDeliveries
    /\ LET u == UpdateMetricsByHost(mxcfg, mixer.merged_metrics, h, v)
       IN /\ mixer' = [mixer EXCEPT !.merged_metrics = u.merged]
          /\ mlog' = [calls |-> mlog.calls + 1, host |-> h, job |-> u.job, value |-> v,
                      warned |-> u.warned]
    /\ UNCHANGED <<busVars, now, hostVars, metricVars, mxcfg, mhosts, loop_tasks, push_task,
                   supervisor, mstop, pushes, gateway, owner_calls, scenarios>>

\* The _run_loop task of the mixer runs for the first time.
PushTaskStart ==
    /\ loop_tasks # <<>>
    /\ Head(loop_tasks).op = "push"
    /\ PushLoop
    /\ loop_tasks' = Tail(loop_tasks)
    /\ UNCHANGED <<subscribers, delivered, raisers, subscribes, subscribing, now, hostVars,
                   metricVars, mxcfg, mixer, mhosts, supervisor, mstop, owner_calls, mlog, scenarios>>

\* _run_loop wakes from `await asyncio.sleep(self.config.push_interval)`.
PushWake ==
    /\ push_task.pc = "sleeping"
    /\ ~push_task.cancel
    /\ now >= push_task.wake
    /\ PushLoop
    /\ UNCHANGED <<subscribers, delivered, raisers, subscribes, subscribing, now, hostVars,
                   metricVars, mxcfg, mixer, mhosts, loop_tasks, supervisor, mstop,
                   owner_calls, mlog, scenarios>>

\* _run_loop gets CancelledError at its sleep: `except asyncio.CancelledError`,
\* then `finally: await self.stop()`, which returns at once.
PushCancelled ==
    /\ push_task.pc = "sleeping"
    /\ push_task.cancel
    /\ push_task' = [push_task EXCEPT !.pc = "cancelled"]
    /\ UNCHANGED <<busVars, now, hostVars, metricVars, mxcfg, mixer, mhosts, loop_tasks,
                   supervisor, mstop, pushes, gateway, owner_calls, mlog, scenarios>>

PushFinished == {"done", "cancelled"}

\* stop(): `await self._push_task` returns at once only if the task has
\* finished.
PushHasFinishedAlways(p) == TRUE
PushHasFinished(p) == p.pc \in PushFinished

\* stop(), from the end of `await self._push_task` to its return: the cleanup,
\* and the return to run_until_complete, which returns.
StopReturns ==
    /\ \E fails \in DeleteFailures(mxcfg.cleanup_on_finish, JobSet(mxcfg)) :
           gateway' = FinishCleanup(mxcfg, gateway, fails)
    /\ mstop' = [mstop EXCEPT !.pc = "done"]
    /\ supervisor' = IF mstop.by = "supervisor"
                       THEN [supervisor EXCEPT !.pc = "done"] ELSE supervisor

\* stop() resumes after gather(): `self._push_task.cancel()` and
\* `await self._push_task`, which does not suspend when the task has finished.
MixerStopResume ==
    /\ mstop.pc = "gather"
    /\ mstop.waiting = {}
    /\ IF PushHasFinished(push_task)
         THEN /\ StopReturns
              /\ UNCHANGED <<push_task, loop_tasks>>
         ELSE /\ mstop' = [mstop EXCEPT !.pc = "await_push"]
              /\ UNCHANGED <<supervisor, gateway>>
              /\ IF push_task.pc = "created"
                   THEN \* a task cancelled before its first step never runs
                        /\ push_task' = [push_task EXCEPT !.pc = "cancelled"]
                        /\ loop_tasks' = SelectSeq(loop_tasks, LAMBDA t : t.op # "push")
                   ELSE /\ push_task' = [push_task EXCEPT !.cancel = TRUE]
                        /\ UNCHANGED loop_tasks
    /\ UNCHANGED <<busVars, now, hostVars, metricVars, mxcfg, mixer, mhosts, pushes,
                   owner_calls, mlog, scenarios>>

\* stop() resumes after `await self._push_task`.
MixerStopDone ==
    /\ mstop.pc = "await_push"
    /\ push_task.pc \in PushFinished
    /\ StopReturns
    /\ UNCHANGED <<busVars, now, hostVars, metricVars, mxcfg, mixer, mhosts, loop_tasks,
                   push_task, pushes, owner_calls, mlog, scenarios>>

\* A job group another run left on the gateway
Stale == "stale"

\* The EmulatedHost objects and the mixer that __init__ builds from config c
NewHosts(c) ==
    [h \in DOMAIN c.hosts |->
        [is_running |-> FALSE, is_pending |-> TRUE, pc |-> "new", host_start_time |-> 0,
         wake |-> 0, has_task |-> FALSE]]
NewMixer(c) ==
    [built |-> "yes", is_running |-> FALSE, mixer_start_time |-> 0,
     job_hosts |-> SetupJobGrouping(c, Len(c.hosts)).job_hosts,
     merged_metrics |-> [j \in JobSet(c) |-> <<>>]]

\* What surrounds a mixer of config c: no task, no call, a gateway that holds
\* a stale job group.
MixerSurroundings(c) ==
    /\ mxcfg = c
    /\ loop_tasks = <<>>
    /\ push_task = [pc |-> "none", wake |-> 0, cancel |-> FALSE]
    /\ supervisor = [pc |-> "idle", wake |-> 0]
    /\ mstop = [pc |-> "none", waiting |-> {}, by |-> "nobody"]
    /\ pushes = [cycle |-> 0, attempts |-> <<>>, after_failure |-> FALSE]
    /\ gateway = [jobs |-> {Stale},
                  deletes |-> [j \in {JobName(c, h) : h \in DOMAIN c.hosts} \cup {Stale} |-> 0]]
    /\ owner_calls = 0
    /\ mlog = [calls |-> 0, host |-> 0, job |-> "", value |-> 0, warned |-> {}]

\* MetricsMixer(config) is called: __init__, which raises MixerError on a
\* duplicate host of a job.
Construct ==
    /\ mixer.built = "no"
    /\ IF SetupJobGrouping(mxcfg, Len(mxcfg.hosts)).error
         THEN /\ mixer' = [mixer EXCEPT !.built = "MixerError"]
              /\ UNCHANGED mhosts
         ELSE /\ mixer' = NewMixer(mxcfg)
              /\ mhosts' = NewHosts(mxcfg)
    /\ UNCHANGED <<busVars, now, hostVars, metricVars, mxcfg, loop_tasks, push_task,
                   supervisor, mstop, pushes, gateway, owner_calls, mlog, scenarios>>

\* The state before MetricsMixer.__init__
MixerUnbuilt(c) ==
    /\ MixerSurroundings(c)
    /\ mixer = [built |-> "no", is_running |-> FALSE, mixer_start_time |-> 0,
                job_hosts |-> <<>>, merged_metrics |-> <<>>]
    /\ mhosts = <<>>

\* The state right after MetricsMixer.__init__
MixerInit(c) ==
    /\ MixerSurroundings(c)
    /\ mixer = NewMixer(c)
    /\ mhosts = NewHosts(c)

\* MixerConfig with two hosts in two jobs
TwoJobs ==
    [hosts |-> <<[name |-> "h1", start_time |-> 0, ttl |-> 1, job_name |-> "j1",
                  labels |-> "a", metrics |-> {"cpu", "mem"}],
                 [name |-> "h2", start_time |-> 0, ttl |-> 0, job_name |-> "",
                  labels |-> "b", metrics |-> {"cpu"}]>>,
     push_interval |-> 1, default_job_name |-> "emulated",
     cleanup_on_start |-> FALSE, cleanup_on_finish |-> FALSE]


(***************************************************************************)
(*                                Scenarios                                *)
(***************************************************************************)
\* A scenario is called with a MetricContext; the model calls it with the
\* context of metric m1, whose storage is storage["m1"], at time now.
Ctx == "m1"

\* ---- feature_toggle(context, start_time, duration, interval, on_value,
\* off_value, source)

\* `start_time < 0 or duration <= 0 or interval <= 0`
ToggleInvalid(p) == p.start_time < 0 \/ p.duration =< 0 \/ p.interval =< 0

\* `cycle_position = (elapsed - start_time) % (duration + interval)` and
\* `is_on = cycle_position < duration`, for start_timestamp ts and time t
CyclePosition(p, ts, t) == ((t - ts) - p.start_time) % (p.duration + p.interval)
IsOnThroughDuration(p, ts, t) == CyclePosition(p, ts, t) =< p.duration
IsOn(p, ts, t) == CyclePosition(p, ts, t) < p.duration

\* `if is_on != previous_state`
StateChangedAlways(is_on, previous) == TRUE
StateChanged(is_on, previous) == is_on # previous

\* feature_toggle at time t with storage st: the storage it leaves, the emit
\* tasks it creates, what it returns, and the state it observed (off before
\* start_time).
FeatureToggle(p, st, t) ==
    IF ToggleInvalid(p)
      THEN [storage |-> st, created |-> <<>>, ret |-> Raises, observed |-> FALSE]
      ELSE
        LET st1 == IF StorageGet(st, "start_timestamp", None) = None
                     THEN StorageSet(st, "start_timestamp", Some(t))
                     ELSE st
            ts == st1["start_timestamp"][1]
            is_on == IsOn(p, ts, t)
            previous == StorageGet(st1, "feature_active", FALSE)
        IN IF t - ts < p.start_time
             THEN [storage |-> st1, created |-> <<>>, ret |-> Returns(p.off_value),
                   observed |-> FALSE]
             ELSE [storage |-> IF StateChanged(is_on, previous)
                                 THEN StorageSet(st1, "feature_active", is_on)
                                 ELSE st1,
                   created |-> IF StateChanged(is_on, previous)
                                 THEN <<IF is_on THEN "feature_on" ELSE "feature_off">>
                                 ELSE <<>>,
                   ret |-> Returns(IF is_on THEN p.on_value ELSE p.off_value),
                   observed |-> is_on]

\* The scenario state of a metric configured with feature_toggle(**p).
ToggleScenario(p) ==
    [kind |-> "toggle", p |-> p, emit_tasks |-> <<>>, calls |-> 0,
     observed |-> FALSE, created |-> <<>>, ret |-> Returns(p.off_value)]

\* One call of feature_toggle.
ToggleCall ==
    /\ scenarios.kind = "toggle"
    /\ scenarios.calls < MaxCalls
    /\ LET r == FeatureToggle(scenarios.p, storage[Ctx], now)
       IN /\ storage' = [storage EXCEPT ![Ctx] = r.storage]
          /\ scenarios' = [scenarios EXCEPT !.emit_tasks = @ \o r.created,
                                            !.calls = @ + 1,
                                            !.observed = r.observed,
                                            !.created = r.created,
                                            !.ret = r.ret]
    /\ UNCHANGED <<busVars, now, hostVars, mcfg, mvalue, last_update, mstart, env, mixerVars>>

\* The oldest emit task created by feature_toggle runs:
\* EmulatorEventBus.emit(name, data={'timestamp': ...}, source=source).
ToggleEmitRun ==
    /\ scenarios.kind = "toggle"
    /\ scenarios.emit_tasks # <<>>
    /\ BusEmit(Head(scenarios.emit_tasks), "toggle", FALSE)
    /\ scenarios' = [scenarios EXCEPT !.emit_tasks = Tail(@)]
    /\ UNCHANGED <<subscribers, delivered, raisers, subscribes, subscribing, now, hostVars,
                   metricVars, mixerVars>>

\* ---- switch_scenario_by_events(context, events_config, default_scenario,
\* default_scenario_data)
\* A scenario is known by its name and its parameters by a tag; what a call of
\* it does (return a number, return None, raise) is chosen by the caller of
\* the operators below.  Stored values are None or Some(v).

\* `hasattr(Scenarios, name)` or `callable(name)`
Library == {"sine_wave", "update_by_trend", "random_in_range"}
Resolves(name) == name \in Library

\* `float(result)` raises for None, inside the same try block
FloatFails(out) == out.kind # "value"

\* `context.event and events_config and context.event.name in events_config`
Matches(cfg, ev) == ev # None /\ ev[1] \in DOMAIN cfg.events

\* The three storage writes made before the event scenario is resolved.
StorageAfterEvent(st, ec, t) ==
    StorageSet(StorageSet(StorageSet(st, "last_event_params", Some(ec.scenario_data)),
                          "last_event_timestamp", Some(t)),
               "last_event_duration", ec.duration)

\* The reset branch: scenario, duration and timestamp are set to None.
StorageAfterResetKeepsScenario(st) ==
    StorageSet(StorageSet(st, "last_event_duration", None), "last_event_timestamp", None)
StorageAfterReset(st) ==
    StorageSet(StorageSet(StorageSet(st, "last_event_scenario", None),
                          "last_event_duration", None),
               "last_event_timestamp", None)

\* `last_event_duration is None or current_time - last_event_timestamp <=
\* last_event_duration`
WithinDurationStrict(led, lets, t) == led = None \/ t - lets[1] < led[1]
WithinDuration(led, lets, t) == led = None \/ t - lets[1] =< led[1]

\* `last_event_scenario and last_event_timestamp and (...)`
UsesLastEvent(st, t) ==
    LET les == StorageGet(st, "last_event_scenario", None)
        led == StorageGet(st, "last_event_duration", None)
        lets == StorageGet(st, "last_event_timestamp", None)
    IN les # None /\ lets # None /\ lets[1] # 0 /\ WithinDuration(led, lets, t)

Invocation(name, params, as) == [scenario |-> name, params |-> params, as |-> as]
Uniform(u) == [kind |-> "uniform", v |-> u]
Result(as, out) == [kind |-> as, v |-> out.v]

\* Lines 288-299: the default scenario when it is configured, is an attribute
\* of Scenarios and returns a number, else a uniform sample.
DefaultOrUniform(cfg, st, invoked, outs, u) ==
    IF cfg.default # None /\ Resolves(cfg.default[1])
      THEN [storage |-> st,
            invoked |-> Append(invoked, Invocation(cfg.default[1], cfg.default_data, "default")),
            ret |-> IF FloatFails(outs.default) THEN Uniform(u)
                    ELSE Result("default", outs.default)]
      ELSE [storage |-> st, invoked |-> invoked, ret |-> Uniform(u)]

\* Lines 272-299: the stored event scenario while it is in use, else the
\* default scenario, else a uniform sample.
LastOrDefault(cfg, st, t, outs, u) ==
    IF UsesLastEvent(st, t)
      THEN LET inv == <<Invocation(st["last_event_scenario"][1],
                                   StorageGet(st, "last_event_params", Some("{}"))[1], "last")>>
           IN IF FloatFails(outs.last)
                THEN DefaultOrUniform(cfg, st, inv, outs, u)
                ELSE [storage |-> st, invoked |-> inv, ret |-> Result("last", outs.last)]
      ELSE DefaultOrUniform(cfg, st, <<>>, outs, u)

\* switch_scenario_by_events called at time t with event ev (None for a
\* time-driven call) and storage st: the storage it leaves, the scenarios it
\* invokes in order, and what it returns.  outs gives what the event
\* scenario, the stored scenario and the default scenario do when called, and
\* u what random.uniform draws.
SwitchScenarioByEvents(cfg, st, ev, t, outs, u) ==
    IF Matches(cfg, ev)
      THEN LET ec == cfg.events[ev[1]]
           IN IF ec.scenario # None
                THEN LET st1 == StorageAfterEvent(st, ec, t)
                         inv == <<Invocation(ec.scenario[1], ec.scenario_data, "event")>>
                     IN IF Resolves(ec.scenario[1])
                          THEN IF outs.event.kind = "raise"
                                 THEN [storage |-> st1, invoked |-> inv, ret |-> Uniform(u)]
                                 ELSE [storage |-> StorageSet(st1, "last_event_scenario",
                                                              ec.scenario),
                                       invoked |-> inv,
                                       ret |-> IF FloatFails(outs.event) THEN Uniform(u)
                                               ELSE Result("event", outs.event)]
                          ELSE LastOrDefault(cfg, st1, t, outs, u)
                ELSE LastOrDefault(cfg, StorageAfterReset(st), t, outs, u)
      ELSE LastOrDefault(cfg, st, t, outs, u)

\* What the call made of a matching event (history).
Handling(cfg, ev, outs) ==
    LET ec == cfg.events[ev[1]]
    IN IF ec.scenario = None THEN "reset"
       ELSE IF ~Resolves(ec.scenario[1]) THEN "unresolved"
       ELSE IF outs.event.kind = "raise" THEN "raised"
       ELSE "handled"

\* The scenario state of a metric configured with
\* switch_scenario_by_events(**cfg).
SwitchScenario(cfg) ==
    [kind |-> "switch", cfg |-> cfg, calls |-> 0, ev |-> None, invoked |-> <<>>,
     ret |-> Uniform(0), latest |-> [kind |-> "none", name |-> "", t |-> 0]]

Outcomes == {Returns(1000), ReturnsNone, Raises}

\* `random.uniform(value_range[0], value_range[1])`
UniformSamples(c) == {c.min, c.max}

\* One call of switch_scenario_by_events, time-driven (ev = None) or for an
\* event.
SwitchCall(ev) ==
    /\ scenarios.kind = "switch"
    /\ scenarios.calls < MaxCalls
    /\ \E outs \in [event : Outcomes, last : Outcomes, default : Outcomes],
          u \in UniformSamples(mcfg[Ctx]) :
          LET r == SwitchScenarioByEvents(scenarios.cfg, storage[Ctx], ev, now, outs, u)
          IN /\ storage' = [storage EXCEPT ![Ctx] = r.storage]
             /\ scenarios' = [scenarios EXCEPT
                    !.calls = @ + 1,
                    !.ev = ev,
                    !.invoked = r.invoked,
                    !.ret = r.ret,
                    !.latest = IF Matches(scenarios.cfg, ev)
                                 THEN [kind |-> Handling(scenarios.cfg, ev, outs),
                                       name |-> ev[1], t |-> now]
                                 ELSE @]
    /\ UNCHANGED <<busVars, now, hostVars, mcfg, mvalue, last_update, mstart, env, mixerVars>>

\* feature_toggle called at each of the times of ts in turn, on a storage that
\* starts as st: the values returned, in order.
RECURSIVE ToggleReturns(_, _, _)
ToggleReturns(p, st, ts) ==
    IF ts = <<>> THEN <<>>
    ELSE LET r == FeatureToggle(p, st, Head(ts))
         IN <<r.ret>> \o ToggleReturns(p, r.storage, Tail(ts))

\* ---- update_by_trend(context, trend, step_range)
\* Values are numbers; accumulated_value is stored as a number.

\* `min_step < 0 or max_step < 0 or min_step > max_step`
TrendInvalid(p) == p.min < 0 \/ p.max < 0 \/ p.min > p.max

Trends == {"up", "down", "hold"}

\* The bounds handed to random.uniform for each trend.
StepBounds(p, trend) ==
    IF trend = "up" THEN [min |-> p.min, max |-> p.max]
    ELSE IF trend = "down" THEN [min |-> 0 - p.max, max |-> 0 - p.min]
    ELSE [min |-> 0 - p.min, max |-> p.max]

\* hold returns before `context.storage.set('accumulated_value', ...)`.
TrendPersistsAlways(trend) == TRUE
TrendPersists(trend) == trend # "hold"

\* update_by_trend with storage st and context value `value` (None or
\* Some(v)), when random.uniform yields step: the storage it leaves and
\* what it returns.  Adding a step to None raises.
UpdateByTrend(p, trend, st, value, step) ==
    LET accumulated == IF "accumulated_value" \in DOMAIN st
                         THEN Some(st["accumulated_value"])
                         ELSE value
    IN IF TrendInvalid(p) \/ trend \notin Trends \/ accumulated = None
         THEN [storage |-> st, ret |-> Raises]
         ELSE [storage |-> IF TrendPersists(trend)
                             THEN StorageSet(st, "accumulated_value", accumulated[1] + step)
                             ELSE st,
               ret |-> Returns(accumulated[1] + step)]

\* The scenario state of a metric configured with update_by_trend, whose
\* trend is given anew at each compute.
TrendScenario(p) ==
    [kind |-> "trend", p |-> p, calls |-> 0, trend |-> "hold", ret |-> Raises]

\* One compute of the metric's value through update_by_trend: the scenario,
\* then update_value's clamp and round.
TrendCall(trend, step) ==
    /\ scenarios.kind = "trend"
    /\ scenarios.calls < MaxCalls
    /\ LET r == UpdateByTrend(scenarios.p, trend, storage[Ctx], mvalue[Ctx], step)
       IN /\ storage' = [storage EXCEPT ![Ctx] = r.storage]
          /\ mvalue' = [mvalue EXCEPT ![Ctx] =
                            StoredValue(mcfg[Ctx], ScenarioResult(mcfg[Ctx], @, r.ret))]
          /\ last_update' = [last_update EXCEPT ![Ctx] = now]
          /\ scenarios' = [scenarios EXCEPT !.calls = @ + 1, !.trend = trend,
                                            !.ret = r.ret]
    /\ UNCHANGED <<busVars, now, hostVars, mcfg, mstart, env, mixerVars>>

\* ---- variety_selection(context, values, varieties, change_probability)
\* random.random() yields a number of tenths in 0 .. 9; change_probability is
\* given in tenths; weights are whole numbers.  Indexes count from 0.
RECURSIVE SumTo(_, _)
SumTo(w, n) == IF n = 0 THEN 0 ELSE w[n] + SumTo(w, n - 1)

\* the length check, `any(w < 0 ...)`, the range of change_probability,
\* and `total_weight == 0`
VarietyInvalid(p) ==
    \/ Len(p.values) # Len(p.varieties)
    \/ \E i \in DOMAIN p.varieties : p.varieties[i] < 0
    \/ p.change_probability < 0 \/ p.change_probability > 10
    \/ SumTo(p.varieties, Len(p.varieties)) = 0

\* The cumulative loop: the first index whose cumulative normalized weight
\* reaches rand_value, or the current index when none does.
\* `rand_value <= cumulative` for weights normalized by their sum.
Selected(w, rand_value, current) ==
    LET total == SumTo(w, Len(w))
        hit == {i \in DOMAIN w : rand_value * total =< 10 * SumTo(w, i)}
    IN IF hit = {} THEN current
       ELSE (CHOOSE i \in hit : \A j \in hit : i =< j) - 1

\* variety_selection with storage st, when random.random() yields
\* change_draw and then rand_value: the storage it leaves, what it returns
\* and the index it used.
VarietySelection(p, st, change_draw, rand_value) ==
    IF VarietyInvalid(p)
      THEN [storage |-> st, ret |-> Raises, index |-> 0]
      ELSE
        LET current == StorageGet(st, "variety_index", 0)
            changes == change_draw < p.change_probability
            index == IF changes THEN Selected(p.varieties, rand_value, current) ELSE current
        IN [storage |-> IF changes THEN StorageSet(st, "variety_index", index) ELSE st,
            ret |-> Returns(p.values[index + 1]),
            index |-> index]

\* The scenario state of a metric configured with variety_selection(**p).
VarietyScenario(p) ==
    [kind |-> "variety", p |-> p, calls |-> 0, index |-> 0, ret |-> Raises]

\* One call of variety_selection.
VarietyCall(change_draw, rand_value) ==
    /\ scenarios.kind = "variety"
    /\ scenarios.calls < MaxCalls
    /\ LET r == VarietySelection(scenarios.p, storage[Ctx], change_draw, rand_value)
       IN /\ storage' = [storage EXCEPT ![Ctx] = r.storage]
          /\ scenarios' = [scenarios EXCEPT !.calls = @ + 1, !.index = r.index,
                                            !.ret = r.ret]
    /\ UNCHANGED <<busVars, now, hostVars, mcfg, mvalue, last_update, mstart, env, mixerVars>>

(***************************************************************************)
(*                      CONFIGURATIONS AND SPECIFICATIONS                  *)
(***************************************************************************)

MetricConfig(type, lo, hi, init, start, ttl, interval, scen, outs) ==
    [type |-> type, min |-> lo, max |-> hi, init |-> init, start_time |-> start,
     ttl |-> ttl, update_interval |-> interval, has_scenario |-> scen, outs |-> outs,
     listen_events |-> <<>>]

\* The same configuration with listen_events given.
Listening(c, names) == [c EXCEPT !.listen_events = names]

\* The state right after EmulatedHost.__init__ (which builds its metrics), with
\* an empty bus.
InitObjects(hc, mc, e) ==
    /\ subscribers = {}
    /\ subscribes = 0
    /\ subscribing = SubscribeTasks(hc, mc)
    /\ ready = <<>>
    /\ emitted = <<>>
    /\ delivered = <<>>
    /\ now = Clock0
    /\ hcfg = hc
    /\ is_running = FALSE
    /\ is_pending = TRUE
    /\ host_start_time = Clock0
    /\ task = 0
    /\ tasks = <<>>
    /\ starts = <<>>
    /\ stops = <<>>
    /\ last_metrics_data = StorageEmpty
    /\ deliveries = 0
    /\ quiesced = FALSE
    /\ mcfg = mc
    /\ mvalue = [m \in Metrics |-> mc[m].init]
    /\ last_update = [m \in Metrics |-> 0]
    /\ mstart = [m \in Metrics |-> Clock0 + mc[m].start_time]
    /\ storage = [m \in Metrics |-> StorageEmpty]
    /\ env = e

\* The same, with no scenario of the library in use.
NoScenario == [kind |-> "none"]
InitHost(hc, mc, e) ==
    /\ InitObjects(hc, mc, e)
    /\ scenarios = NoScenario

\* The same, beside a mixer of two hosts in two jobs.
InitWith(hc, mc, e) ==
    /\ InitHost(hc, mc, e)
    /\ MixerInit(TwoJobs)

\* ---- Spec: the host's lifecycle under start() and stop() calls made at any
\* moment, with two plain metrics.
HostConfigs ==
    {[start_time |-> s, ttl |-> l, lo |-> 1, hi |-> 1, listen_events |-> <<>>] : s \in {0, 1}, l \in {1, 8}}

PlainMetrics ==
    [m \in Metrics |->
        IF m = "m1"
          THEN MetricConfig("gauge", 0, 100, None, 0, None, 1, TRUE, {Returns(50)})
          ELSE MetricConfig("counter", 0, 100, None, 0, None, 1, TRUE, {Returns(10)})]

Init ==
    /\ \E hc \in HostConfigs :
        InitWith(hc, PlainMetrics, [calls |-> MaxCalls])
    /\ raisers = {}

Next ==
    \/ StartCall
    \/ \E i \in DOMAIN starts : StartWake(i)
    \/ \E t \in DOMAIN tasks : TaskRun(t)
    \/ \E t \in DOMAIN tasks : TaskCancelled(t)
    \/ \E t \in DOMAIN tasks : TaskResume(t)
    \/ StopCall
    \/ \E i \in DOMAIN stops : StopResume(i)
    \/ AdvanceTime

Spec == Init /\ [][Next]_vars

\* ---- SpecTick: the metrics of a running host, under time-driven ticks and
\* event-driven updates, for metrics of every type, with scenarios that return
\* values inside and outside value_range, return None or raise.
AnyOutcome == {Returns(-20), Returns(26), Returns(70), ReturnsNone, Raises}

\* m1 is a gauge or, with a value_range finer than two decimals and a start
\* delay and ttl of its own, a histogram; m2 is a counter whose init_value is
\* outside its range or a gauge without scenario.
MetricProfiles(m) ==
    IF m = "m1"
      THEN { MetricConfig("gauge", 0, 50, None, 0, None, 1, TRUE, AnyOutcome),
             MetricConfig("histogram", 4, 46, None, 1, Some(1), 1, TRUE,
                          {Returns(-20), Returns(70)}) }
      ELSE { MetricConfig("counter", 0, 50, Some(70), 0, None, 2, TRUE,
                          {Returns(26), Raises}),
             MetricConfig("gauge", 0, 50, Some(70), 0, None, 1, FALSE, {ReturnsNone}) }

InitTick ==
    /\ \E mc \in [Metrics -> UNION {MetricProfiles(m) : m \in Metrics}] :
        /\ \A m \in Metrics : mc[m] \in MetricProfiles(m)
        /\ InitWith([start_time |-> 0, ttl |-> 8, lo |-> 1, hi |-> 1, listen_events |-> <<>>], mc, [calls |-> 2])
    /\ raisers = {}

NextTick ==
    \/ StartCall
    \/ \E t \in DOMAIN tasks : TaskRun(t)
    \/ \E t \in DOMAIN tasks : TaskCancelled(t)
    \/ \E t \in DOMAIN tasks : TaskResume(t)
    \/ StopCall
    \/ \E i \in DOMAIN stops : StopResume(i)
    \/ \E m \in Metrics : MetricEvent(m)
    \/ AdvanceTime

SpecTick == InitTick /\ [][NextTick]_vars

\* ---- SpecTtl: a host that nobody stops from outside, under the fairness of
\* the event loop: a task that can run is run.  Time need not advance.
InitTtl ==
    /\ \E hc \in HostConfigs :
        InitWith(hc, PlainMetrics, [calls |-> 2])
    /\ raisers = {}

TaskStep ==
    \/ \E i \in DOMAIN starts : StartWake(i)
    \/ \E t \in DOMAIN tasks : TaskRun(t)
    \/ \E t \in DOMAIN tasks : TaskResume(t)

NextTtl ==
    \/ StartCall
    \/ TaskStep
    \/ AdvanceTime

SpecTtl == InitTtl /\ [][NextTtl]_vars /\ WF_vars(TaskStep)

\* ---- SpecListen: a host whose first metric and which itself listen to an
\* event, under start() and stop() calls and emits made at any moment from the
\* return of the constructor on, all within one tick of the clock.
ListeningMetrics ==
    [m \in Metrics |->
        IF m = "m1"
          THEN Listening(MetricConfig("gauge", 0, 100, None, 0, None, 1, TRUE,
                                      {Returns(50)}),
                         <<"feature_on">>)
          ELSE MetricConfig("counter", 0, 100, None, 0, None, 1, TRUE, {Returns(10)})]

InitListen ==
    /\ InitWith([start_time |-> 0, ttl |-> 8, lo |-> 1, hi |-> 1,
                 listen_events |-> <<"feature_on">>],
                ListeningMetrics, [calls |-> 2])
    /\ raisers = {}

NextListen ==
    \/ RunSubscribe
    \/ \E n \in EventNames : Emit(n)
    \/ RunHandler
    \/ StartCall
    \/ \E t \in DOMAIN tasks : TaskRun(t)
    \/ \E t \in DOMAIN tasks : TaskCancelled(t)
    \/ \E t \in DOMAIN tasks : TaskResume(t)
    \/ StopCall
    \/ \E i \in DOMAIN stops : StopResume(i)

SpecListen == InitListen /\ [][NextListen]_vars

\* ---- SpecBus: the event bus alone, under subscribe, unsubscribe and emit
\* calls made at any moment; no callback raises, or cb1 does whenever invoked.
InitBus ==
    /\ InitWith([start_time |-> 0, ttl |-> 8, lo |-> 1, hi |-> 1, listen_events |-> <<>>], PlainMetrics,
                [calls |-> 0])
    /\ raisers \in {{}, {"cb1"}}

NextBus ==
    \/ \E n \in EventNames, cb \in Callbacks, once \in BOOLEAN : Subscribe(n, cb, once)
    \/ \E n \in EventNames, cb \in Callbacks : Unsubscribe(n, cb)
    \/ \E n \in EventNames : Emit(n)
    \/ RunCallback

SpecBus == InitBus /\ [][NextBus]_vars

\* ---- SpecMixer: a mixer of two hosts in two jobs whose owner calls
\* run_until_complete() at some moment; every push succeeds or fails, a host
\* leaves its loop on its TTL or on an error.  The event loop is fair: a task
\* that can run and a sleep that is over are run.  Time need not advance.
InitMixer ==
    /\ InitWith([start_time |-> 0, ttl |-> 8, lo |-> 1, hi |-> 1, listen_events |-> <<>>], PlainMetrics,
                [calls |-> 0])
    /\ raisers = {}

MixerStep ==
    \/ SupervisorWake
    \/ HostStartTask
    \/ HostStopTask
    \/ PushTaskStart
    \/ PushWake
    \/ PushCancelled
    \/ MixerStopResume
    \/ MixerStopDone

NextMixer ==
    \/ RunUntilComplete
    \/ MixerStep
    \/ \E h \in MixerHosts, why \in {"ttl", "error"} : HostLoopExit(h, why)
    \/ AdvanceTime

SpecMixer == InitMixer /\ [][NextMixer]_vars /\ WF_vars(MixerStep)

\* The host beside which the mixers below are built
IdleHost == [start_time |-> 0, ttl |-> 8, lo |-> 1, hi |-> 1, listen_events |-> <<>>]

\* ---- SpecGrouping: MetricsMixer.__init__ applied to host lists of up to
\* MaxHosts hosts, with names and job names that may repeat and a default job
\* name that may equal a given one.
GroupedHost(n, j) ==
    [name |-> n, start_time |-> 0, ttl |-> 1, job_name |-> j, labels |-> "a",
     metrics |-> {"cpu"}]

GroupingConfigs ==
    {[hosts |-> hs, push_interval |-> 1, default_job_name |-> d,
      cleanup_on_start |-> FALSE, cleanup_on_finish |-> FALSE] :
        hs \in UNION {[1..n -> {GroupedHost(x, j) : x \in {"h1", "h2"}, j \in {"", "j1"}}] :
                         n \in 1..MaxHosts},
        d \in {"emulated", "j1"}}

InitGrouping ==
    /\ InitHost(IdleHost, PlainMetrics, [calls |-> 0])
    /\ raisers = {}
    /\ \E c \in GroupingConfigs : MixerUnbuilt(c)

NextGrouping == Construct

SpecGrouping == InitGrouping /\ [][NextGrouping]_vars

\* ---- SpecCleanup: a mixer of two hosts in two jobs, with any cleanup flags,
\* whose owner calls start() and stop() at any moment; the gateway holds a
\* stale job group, and each of its answers succeeds or fails.  Time stands
\* still.
InitCleanup ==
    /\ InitHost(IdleHost, PlainMetrics, [calls |-> 0])
    /\ raisers = {}
    /\ \E s, f \in BOOLEAN :
          MixerInit([TwoJobs EXCEPT !.cleanup_on_start = s, !.cleanup_on_finish = f])

NextCleanup ==
    \/ MixerStartCall
    \/ MixerStopCall
    \/ HostStartTask
    \/ HostStopTask
    \/ PushTaskStart
    \/ PushCancelled
    \/ MixerStopResume
    \/ MixerStopDone

SpecCleanup == InitCleanup /\ [][NextCleanup]_vars

\* ---- SpecMerge: started mixers whose hosts deliver batches in any order.
\* SharedLabels has two hosts of one job with equal label sets and a third
\* with its own; SharedName has, besides, a host whose name is also the name
\* of a host of another job.
MergingHost(n, j, l) ==
    [name |-> n, start_time |-> 0, ttl |-> 8, job_name |-> j, labels |-> l, metrics |-> {"cpu"}]

SharedLabels ==
    [TwoJobs EXCEPT !.hosts = <<MergingHost("h1", "j1", "a"), MergingHost("h2", "j1", "a"),
                                MergingHost("h3", "j1", "b")>>]

SharedName ==
    [TwoJobs EXCEPT !.hosts = <<MergingHost("h1", "j1", "b"), MergingHost("h2", "j2", "a"),
                                MergingHost("h1", "j2", "a")>>]

DeliveredValues == {1000, 2000}

InitMerge ==
    /\ InitHost(IdleHost, PlainMetrics, [calls |-> 0])
    /\ raisers = {}
    /\ \E c \in {SharedLabels, SharedName} : MixerInit(c)

NextMerge ==
    \/ MixerStartCall
    \/ HostStartTask
    \/ \E h \in MixerHosts, v \in DeliveredValues : HostDelivers(h, v)

SpecMerge == InitMerge /\ [][NextMerge]_vars

\* ---- SpecZero: a host with ttl = 0, started by its owner; two readings of
\* the clock are equal when no time passed between them.
ZeroTtlConfigs ==
    {[start_time |-> s, ttl |-> 0, lo |-> 1, hi |-> 1, listen_events |-> <<>>] : s \in {0, 1}}

InitZero ==
    /\ \E hc \in ZeroTtlConfigs :
        InitWith(hc, PlainMetrics, [calls |-> 2])
    /\ raisers = {}

NextZero ==
    \/ StartCall
    \/ \E i \in DOMAIN starts : StartWake(i)
    \/ \E t \in DOMAIN tasks : TaskRun(t)
    \/ \E t \in DOMAIN tasks : TaskResume(t)
    \/ AdvanceTime

SpecZero == InitZero /\ [][NextZero]_vars

\* ---- SpecToggle: a metric whose scenario is feature_toggle, called at any
\* moment while time passes; the emit tasks it creates run in creation order.
ToggleParams ==
    {[start_time |-> s, duration |-> d, interval |-> 1, on_value |-> 1000, off_value |-> 0] :
        s \in {0, 1}, d \in {0, 1, 2}}

InitToggle ==
    /\ InitObjects(IdleHost, PlainMetrics, [calls |-> 0])
    /\ raisers = {}
    /\ MixerInit(TwoJobs)
    /\ \E p \in ToggleParams : scenarios = ToggleScenario(p)

NextToggle ==
    \/ ToggleCall
    \/ ToggleEmitRun
    \/ AdvanceTime

SpecToggle == InitToggle /\ [][NextToggle]_vars

\* ---- SpecSwitch: a metric whose scenario is switch_scenario_by_events,
\* called by ticks and by events at any moment while time passes.  feature_on
\* switches to a scenario for a duration, feature_off to one without a
\* duration, reset has no scenario, and broken names a scenario that does not
\* exist; other is not in events_config.
SwitchEvents ==
    [feature_on |-> [scenario |-> Some("sine_wave"), scenario_data |-> "pa",
                     duration |-> Some(1)],
     feature_off |-> [scenario |-> Some("update_by_trend"), scenario_data |-> "pb",
                      duration |-> None],
     reset |-> [scenario |-> None, scenario_data |-> "{}", duration |-> None],
     broken |-> [scenario |-> Some("missing"), scenario_data |-> "px", duration |-> None]]

SwitchConfigs ==
    {[events |-> SwitchEvents, default |-> d, default_data |-> "pd"] :
        d \in {None, Some("random_in_range")}}

SeenEvents == {None} \cup {Some(n) : n \in DOMAIN SwitchEvents \cup {"other"}}

InitSwitch ==
    /\ InitObjects(IdleHost, PlainMetrics, [calls |-> 0])
    /\ raisers = {}
    /\ MixerInit(TwoJobs)
    /\ \E cfg \in SwitchConfigs : scenarios = SwitchScenario(cfg)

NextSwitch ==
    \/ \E ev \in SeenEvents : SwitchCall(ev)
    \/ AdvanceTime

SpecSwitch == InitSwitch /\ [][NextSwitch]_vars

\* ---- SpecWindow: a host whose metrics have active windows of their own:
\* m1 is active at one moment only, one after construction; m2 is always
\* active, or active with m1, or at the moment of construction only.
WindowProfiles(m) ==
    IF m = "m1"
      THEN { MetricConfig("gauge", 0, 50, None, 1, Some(0), 1, TRUE, {Returns(26), Raises}) }
      ELSE { MetricConfig("counter", 0, 50, None, 0, None, 1, TRUE, {Returns(26)}),
             MetricConfig("gauge", 0, 50, None, 1, Some(0), 1, TRUE, {Returns(26)}),
             MetricConfig("gauge", 0, 50, Some(70), 0, Some(0), 1, TRUE, {Returns(26)}) }

InitWindow ==
    /\ \E mc \in [Metrics -> UNION {WindowProfiles(m) : m \in Metrics}] :
        /\ \A m \in Metrics : mc[m] \in WindowProfiles(m)
        /\ InitWith(IdleHost, mc, [calls |-> 2])
    /\ raisers = {}

NextWindow ==
    \/ StartCall
    \/ \E t \in DOMAIN tasks : TaskRun(t)
    \/ \E t \in DOMAIN tasks : TaskResume(t)
    \/ \E m \in Metrics : MetricEvent(m)
    \/ AdvanceTime

SpecWindow == InitWindow /\ [][NextWindow]_vars

\* ---- SpecTrend: a metric whose scenario is update_by_trend, computed at any
\* moment with any trend while time passes.  m1 has value_range (0, 50), no
\* start delay, no ttl and update_interval 0.
TrendParams ==
    {[min |-> 10, max |-> 20], [min |-> 0, max |-> 4], [min |-> 20, max |-> 10]}

TrendMetrics(init) ==
    [m \in Metrics |->
        MetricConfig("gauge", 0, 50, IF m = Ctx THEN init ELSE Some(0), 0, None, 0,
                     m = Ctx, {Raises})]

InitTrend ==
    /\ \E init \in {None, Some(10), Some(40)} :
          InitObjects(IdleHost, TrendMetrics(init), [calls |-> 0])
    /\ raisers = {}
    /\ MixerInit(TwoJobs)
    /\ \E p \in TrendParams : scenarios = TrendScenario(p)

NextTrend ==
    \/ \E trend \in Trends \cup {"sideways"} :
          \E step \in UniformSamples(StepBounds(scenarios.p, trend)) : TrendCall(trend, step)
    \/ AdvanceTime

SpecTrend == InitTrend /\ [][NextTrend]_vars

\* ---- SpecVariety: a metric whose scenario is variety_selection, called at
\* any moment with any draws while time passes.
VarietyParams ==
    {[values |-> v, varieties |-> w, change_probability |-> c] :
        v \in {<<10, 50, 90>>, <<10, 20>>},
        w \in {<<2, 5, 3>>, <<0, 1>>, <<1, 0>>, <<0, 0>>, <<1, -1>>},
        c \in {0, 5, 10}}

Draws == {0, 3, 9}

InitVariety ==
    /\ InitObjects(IdleHost, PlainMetrics, [calls |-> 0])
    /\ raisers = {}
    /\ MixerInit(TwoJobs)
    /\ \E p \in VarietyParams : scenarios = VarietyScenario(p)

NextVariety ==
    \/ \E change_draw \in Draws, rand_value \in Draws : VarietyCall(change_draw, rand_value)
    \/ AdvanceTime

SpecVariety == InitVariety /\ [][NextVariety]_vars

\* ---- SpecStop: one run of a mixer of two hosts, one of which has a
\* start_time delay: the owner calls start() once and stop() at any moment,
\* before the start() tasks of the hosts have run, during the delay or after
\* it; hosts deliver batches, the push loop pushes, time passes, and the jobs
\* are deleted on finish.
DelayedConfigs ==
    {[TwoJobs EXCEPT !.hosts[1].start_time = 1, !.hosts[1].ttl = 8,
                     !.hosts[2].start_time = 0, !.hosts[2].ttl = 8,
                     !.push_interval = 2, !.cleanup_on_finish = TRUE]}

InitStop ==
    /\ InitHost(IdleHost, PlainMetrics, [calls |-> 0])
    /\ raisers = {}
    /\ \E c \in DelayedConfigs : MixerInit(c)

MixerStartOnce ==
    /\ push_task.pc = "none"
    /\ MixerStartCall

NextStop ==
    \/ MixerStartOnce
    \/ MixerStopCall
    \/ HostStartTask
    \/ \E h \in MixerHosts : HostStartWake(h)
    \/ HostStopTask
    \/ \E h \in MixerHosts, v \in {1000} : HostDelivers(h, v)
    \/ PushTaskStart
    \/ PushWake
    \/ PushCancelled
    \/ MixerStopResume
    \/ MixerStopDone
    \/ AdvanceTime

SpecStop == InitStop /\ [][NextStop]_vars

(***************************************************************************)
(*                    PROPERTIES OF THE METRIC AND THE HOST                *)
(***************************************************************************)

IsCounter(m) == mcfg[m].type = "counter"

\* C1: every value of a published batch lies within its metric's value_range.
\* As stated (every metric type, the exact range):
C1_PublishedWithinRange ==
    \A m \in DOMAIN last_metrics_data :
        /\ mcfg[m].min <= last_metrics_data[m]
        /\ last_metrics_data[m] <= mcfg[m].max

\* C1, as it holds: a value published for a gauge or histogram lies between the
\* two-decimal roundings of the bounds of value_range (the bounds themselves
\* when they have at most two decimals); a counter publishes its running
\* total, which is at least its rounded lower bound when that is not negative
\* and is not bounded by the upper bound.
C1_PublishedWithinRoundedRange ==
    \A m \in DOMAIN last_metrics_data :
        /\ ~IsCounter(m) =>
              /\ Round2(mcfg[m].min) <= last_metrics_data[m]
              /\ last_metrics_data[m] <= Round2(mcfg[m].max)
        /\ (IsCounter(m) /\ mcfg[m].min >= 0) =>
              Round2(mcfg[m].min) <= last_metrics_data[m]

\* C1 witness: one batch holds a gauge or histogram value that clamping and
\* rounding put above the upper bound, and a counter total above its bound.
C1_Witness ==
    /\ \E m \in DOMAIN last_metrics_data :
          ~IsCounter(m) /\ last_metrics_data[m] > mcfg[m].max
    /\ \E m \in DOMAIN last_metrics_data :
          IsCounter(m) /\ last_metrics_data[m] > mcfg[m].max

\* C2: whenever update_value stores a new non-nil value, time-driven or
\* event-driven, that value lies within value_range (for min <= max).
C2_StoredWithinRange ==
    [][\A m \in Metrics :
          ( /\ mvalue'[m] # mvalue[m]
            /\ mvalue'[m] # None
            /\ mcfg[m].min <= mcfg[m].max )
          => /\ mcfg[m].min <= mvalue'[m][1]
             /\ mvalue'[m][1] <= mcfg[m].max]_vars

\* A stop() call made from outside has returned and no start() call was made
\* since it returned.
StopReturned ==
    \E i \in DOMAIN stops :
        stops[i].pc = "done" /\ stops[i].ret_starts = Len(starts)

CallbackInvoked == deliveries' # deliveries

\* C3: once stop() has returned, the update callback is not invoked again
\* until a later start().  As stated, with "later" meaning after the return:
C3_NoCallbackAfterStopReturned ==
    [][CallbackInvoked => ~StopReturned]_vars

\* C3, as it holds: once stop() has returned, the update callback is not
\* invoked again unless start() was called after that stop() was called; a
\* start() still in its start_time delay when stop() is called does not bring
\* the callback back.
C3_NoCallbackAfterStop ==
    [][CallbackInvoked => ~quiesced]_vars

\* C3 witness: a batch was delivered, a stop() that did stop the host has
\* returned with no start() since, and the loop task that a start() delayed
\* across that stop() created afterwards has ended without a batch.
C3_Witness ==
    /\ quiesced
    /\ DOMAIN last_metrics_data # {}
    /\ \E i \in DOMAIN stops : stops[i].ran /\ stops[i].pc = "done"
    /\ Len(tasks) >= 2
    /\ tasks[Len(tasks)].pc = "done"
    /\ tasks[Len(tasks)].stop_emits = 0

\* C4: a stop() that finds the host running (also during the start_time
\* wait) completes, having cleared the storages and emitted host_stopped
\* exactly once; a stop() that finds it not running clears and emits nothing.
C4_StopStopsOnce ==
    \A i \in DOMAIN stops :
        /\ stops[i].ran =>
              /\ stops[i].pc # "raised"
              /\ stops[i].cleaned
              /\ stops[i].emits <= 1
              /\ stops[i].pc = "done" => stops[i].emits = 1
        /\ ~stops[i].ran => (stops[i].emits = 0 /\ ~stops[i].cleaned)

HostEvent(n) == {e \in DOMAIN emitted : emitted[e].source = "host" /\ emitted[e].name = n}

\* C5: host_started is emitted only while the host is running; no
\* host_stopped precedes the first host_started; between two consecutive
\* host_started there is exactly one host_stopped.
C5_StartedStoppedAlternate ==
    /\ \A e \in HostEvent("host_started") : emitted[e].running
    /\ \A e \in HostEvent("host_stopped") :
          \E b \in HostEvent("host_started") : b < e
    /\ \A a, b \in HostEvent("host_started") :
          (a < b /\ ~\E c \in HostEvent("host_started") : a < c /\ c < b)
          => Cardinality({e \in HostEvent("host_stopped") : a < e /\ e < b}) = 1

\* C6: once the loop has observed the TTL as expired, the host is not running,
\* that task delivers no further batch and its stop() emits host_stopped
\* exactly once, with no stop() call from outside.
C6_TtlObserved(t) == t \in DOMAIN tasks /\ tasks[t].ttl_seen

C6_StoppedItself(t) ==
    t \in DOMAIN tasks /\ tasks[t].pc = "done" /\ tasks[t].stop_emits = 1

C6_AfterTtl ==
    /\ \A t \in DOMAIN tasks :
          tasks[t].ttl_seen =>
              /\ tasks[t].pc \in {"await_self", "await", "done"}
              /\ tasks[t].stop_emits = IF tasks[t].pc = "done" THEN 1 ELSE 0
    /\ Cardinality(HostEvent("host_stopped"))
          = Cardinality({t \in DOMAIN tasks : tasks[t].stop_emits = 1})
    /\ \A t \in DOMAIN tasks : tasks[t].stop_emits <= 1

C6_TtlStep ==
    \A t \in DOMAIN tasks :
        (~tasks[t].ttl_seen /\ tasks'[t].ttl_seen) =>
            /\ ~is_running'
            /\ ~CallbackInvoked
            /\ TtlExpired(host_start_time, hcfg.ttl, now)
            /\ \A m \in Metrics : storage'[m] = StorageEmpty

C6_NoBatchPastTtl ==
    CallbackInvoked => ~TtlExpired(host_start_time, hcfg.ttl, now)

C6_HostStopsItself ==
    /\ []C6_AfterTtl
    /\ [][C6_TtlStep /\ C6_NoBatchPastTtl]_vars
    /\ \A t \in 1..MaxCalls : C6_TtlObserved(t) ~> C6_StoppedItself(t)

\* C6 witness: the TTL was observed and the host's own stop() has completed;
\* no stop() call was ever made from outside.
C6_Witness ==
    /\ stops = <<>>
    /\ ~is_running
    /\ \E t \in DOMAIN tasks :
          tasks[t].ttl_seen /\ tasks[t].pc = "done" /\ tasks[t].stop_emits = 1

\* C11: a metric is subscribed to its listen_events as of its construction:
\* every event of such a name emitted after the constructor returned (every
\* emit of a behaviour is) finds the metric's handler in its snapshot, and so
\* is delivered to the metric.
C11_SubscribedAsOfConstruction ==
    \A e \in DOMAIN emitted :
        emitted[e].source = "ext" =>
            \A m \in Metrics : \A i \in DOMAIN mcfg[m].listen_events :
                mcfg[m].listen_events[i] = emitted[e].name
                    => Sub(emitted[e].name, FALSE, m) \in emitted[e].snap

\* C12: after a stop() that stopped the host has completed, and until the
\* next start(), the bus holds no subscription of the host or of its metrics.
C12_NoSubscriptionAfterStop ==
    ( /\ ~is_running
      /\ \E i \in DOMAIN stops :
            stops[i].ran /\ stops[i].pc = "done" /\ stops[i].ret_starts = Len(starts) )
    => \A s \in subscribers : s.cb \notin Handlers

InWindow(m) ==
    /\ now >= mstart[m]
    /\ mcfg[m].ttl = None \/ now <= mstart[m] + mcfg[m].ttl[1]
Due(m) == now - last_update[m] >= mcfg[m].update_interval

\* A task of the host goes through one iteration of its loop.
TickStep ==
    \E t \in DOMAIN tasks :
        /\ tasks[t].pc \in {"created", "sleep"}
        /\ ~tasks[t].cancel
        /\ is_running
        /\ ~TtlExpired(host_start_time, hcfg.ttl, now)
        /\ tasks'[t].pc # tasks[t].pc \/ tasks'[t].wake # tasks[t].wake

\* C13: a time-driven update_value inside the metric's active window reuses
\* the value, without reaching the scenario, when now - last_update is less
\* than update_interval, and computes, setting last_update to now, when it is
\* equal or greater.
C13_UpdateValueGate ==
    \A m \in Metrics : \A out \in mcfg[m].outs :
        LET u == UpdateValue(m, FALSE, out, now)
        IN InWindow(m) =>
              IF Due(m)
                THEN u.computed /\ u.last = now
                ELSE /\ ~u.computed
                     /\ u.ret = mvalue[m] /\ u.value = mvalue[m]
                     /\ u.last = last_update[m]

C13_TickGate ==
    \A m \in Metrics :
        /\ (TickStep /\ InWindow(m) /\ Due(m)) => last_update'[m] = now
        /\ (TickStep /\ InWindow(m) /\ ~Due(m)) =>
              (last_update'[m] = last_update[m] /\ mvalue'[m] = mvalue[m])
        /\ last_update'[m] # last_update[m] =>
              (TickStep /\ InWindow(m) /\ Due(m) /\ last_update'[m] = now)

C13_IntervalBoundary ==
    []C13_UpdateValueGate /\ [][C13_TickGate]_vars

\* C13 witness: a counter with update_interval 2 was computed, published at
\* least twice, and computed again exactly update_interval after its first
\* compute.
C13_Witness ==
    \E m \in Metrics :
        /\ mcfg[m].update_interval = 2
        /\ IsCounter(m)
        /\ last_update[m] = now
        /\ now = Clock0 + mcfg[m].update_interval
        /\ StorageGet(storage[m], "counter_total", 0) > mcfg[m].max

\* C14: an event-driven update_value(event) reaches the scenario whatever
\* start time, ttl and update_interval say and leaves last_update unchanged;
\* a step that is not a loop iteration and does not advance the clock changes
\* neither last_update nor whether the next time-driven call is inside the
\* window and due.
C14_EventUpdateValue ==
    \A m \in Metrics : \A out \in mcfg[m].outs :
        LET u == UpdateValue(m, TRUE, out, now)
        IN u.computed /\ u.last = last_update[m]

C14_EventFrame ==
    (~TickStep /\ now' = now) =>
        \A m \in Metrics :
            /\ last_update'[m] = last_update[m]
            /\ Due(m)' = Due(m)
            /\ InWindow(m)' = InWindow(m)

C14_EventBypassesGate ==
    []C14_EventUpdateValue /\ [][C14_EventFrame]_vars

\* C14 witness: before its start time, and never computed by a tick, a metric
\* has a value other than its init_value: an event stored it.
C14_Witness ==
    \E m \in Metrics :
        /\ now < mstart[m]
        /\ last_update[m] = 0
        /\ mvalue[m] # mcfg[m].init

\* C15: a scenario that raises leaves the metric with its prior value.  As
\* stated (the value is the same after the update):
C15_RaiseKeepsValue ==
    \A m \in Metrics : \A byEvent \in BOOLEAN :
        LET u == UpdateValue(m, byEvent, Raises, now)
        IN (mcfg[m].has_scenario /\ u.computed) => u.value = mvalue[m]

\* C15, as it holds: when the scenario raises, update_value returns and stores
\* the prior value clamped to value_range and rounded to two decimals, which
\* is the prior value itself whenever an earlier update stored it (an
\* init_value outside the range or with more decimals is changed); nothing
\* is raised to the caller, and in a loop iteration every metric inside its
\* window is published exactly when its value is not nil.
C15_RaiseKeepsNormalisedValue ==
    \A m \in Metrics : \A byEvent \in BOOLEAN :
        LET u == UpdateValue(m, byEvent, Raises, now)
            c == mcfg[m]
        IN (c.has_scenario /\ u.computed) =>
              /\ u.ret = u.value
              /\ mvalue[m] = None => u.value = None
              /\ mvalue[m] # None =>
                    /\ u.value # None
                    /\ mvalue[m][1] < c.min => u.value[1] = Round2(c.min)
                    /\ mvalue[m][1] > c.max => u.value[1] = Round2(c.max)
                    /\ (c.min <= mvalue[m][1] /\ mvalue[m][1] <= c.max)
                          => u.value[1] = Round2(mvalue[m][1])
              /\ mvalue[m] # c.init => u.value = mvalue[m]

C15_TickPublishesAll ==
    TickStep =>
        \A m \in Metrics :
            InWindow(m) => (m \in DOMAIN last_metrics_data' <=> mvalue'[m] # None)

C15_ScenarioErrorAbsorbed ==
    []C15_RaiseKeepsNormalisedValue /\ [][C15_TickPublishesAll]_vars

\* C15 witness: the counter whose scenario either returns 26 or raises holds
\* its init_value 70 clamped to 50, which only a raising scenario leaves, after
\* a tick that published it together with the other metric.
C15_Witness ==
    \E m \in Metrics :
        /\ IsCounter(m)
        /\ mcfg[m].init = Some(70)
        /\ last_update[m] = now
        /\ mvalue[m] = Some(50)
        /\ DOMAIN last_metrics_data = Metrics

CounterTotal(m) == StorageGet(storage[m], "counter_total", 0)

\* C16: for a counter with value_range.min >= 0, every total published by a
\* loop iteration is the total kept from the previous iteration of that
\* lifetime (0 at its start) plus the value this iteration's update returned,
\* and not less than it; the kept total is the last published one and goes
\* back to 0 only in a step that stops the host.
C16_TotalKept ==
    \A m \in Metrics :
        (IsCounter(m) /\ m \in DOMAIN last_metrics_data
            /\ "counter_total" \in DOMAIN storage[m])
        => storage[m]["counter_total"] = last_metrics_data[m]

C16_TotalStep ==
    \A m \in Metrics :
        (IsCounter(m) /\ mcfg[m].min >= 0) =>
            /\ (TickStep /\ m \in DOMAIN last_metrics_data') =>
                  /\ last_metrics_data'[m] = CounterTotal(m) + mvalue'[m][1]
                  /\ last_metrics_data'[m] >= CounterTotal(m)
            /\ CounterTotal(m)' < CounterTotal(m) => (is_running /\ ~is_running')

C16_CounterMonotonic ==
    []C16_TotalKept /\ [][C16_TotalStep]_vars

\* C16 witness: a running host has published a counter total that is more
\* than the value of the last tick, and keeps it.
C16_Witness ==
    \E m \in Metrics :
        /\ IsCounter(m)
        /\ is_running
        /\ m \in DOMAIN last_metrics_data
        /\ CounterTotal(m) = last_metrics_data[m]
        /\ mvalue[m] # None
        /\ last_metrics_data[m] > mvalue[m][1]

(***************************************************************************)
(*                         PROPERTIES OF THE MIXER                         *)
(***************************************************************************)

\* Every host has left its loop (on its TTL or on an error) or was stopped.
NoHostActive == \A h \in MixerHosts : ~mhosts[h].is_running /\ mhosts[h].pc = "exited"

\* C17: run_until_complete stops the mixer as soon as no host is running or
\* pending: a wake of the supervisory loop that finds every host stopped does
\* not go back to sleep, whether or not the aggregate TTL has elapsed.
C17_StopsWhenNoHostRuns ==
    [][(supervisor.pc = "sleeping" /\ supervisor' # supervisor /\ NoHostActive)
          => supervisor'.pc # "sleeping"]_vars

\* C18: once the aggregate TTL, the largest start_time + ttl of the hosts, has
\* elapsed since the mixer started, run_until_complete leaves its loop and
\* performs stop(); when it has returned the mixer is not running, its hosts
\* are stopped and its push task has finished.
C18_TerminatesAfterTtl ==
    /\ (supervisor.pc = "sleeping" /\ mixer.mixer_start_time + MixerTtl(mxcfg) < now)
          ~> (supervisor.pc = "done")
    /\ [](supervisor.pc = "done" =>
            /\ ~mixer.is_running
            /\ mstop.pc = "done"
            /\ push_task.pc \in PushFinished
            /\ \A h \in MixerHosts : ~mhosts[h].is_running)

C18_Witness ==
    /\ supervisor.pc = "done"
    /\ ~mixer.is_running
    /\ mixer.mixer_start_time + MixerTtl(mxcfg) < now
    /\ MixerTtl(mxcfg) = 1
    /\ pushes.cycle >= 2

\* A step that performs a push cycle.
PushStep == pushes'.cycle = pushes.cycle + 1

\* C19: while the mixer is running every run of the push loop is a push cycle,
\* a cycle attempts exactly one push for every job, in the order of the jobs,
\* whatever pushes failed in this cycle or in an earlier one, and leaves the
\* loop waiting for its next cycle.
C19_EveryJobPushedEachCycle ==
    /\ [][(mixer.is_running /\ push_task' # push_task) => PushStep]_vars
    /\ [][PushStep =>
             /\ Len(pushes'.attempts) = Len(Jobs(mxcfg))
             /\ \A k \in DOMAIN Jobs(mxcfg) : pushes'.attempts[k].job = Jobs(mxcfg)[k]
             /\ push_task'.pc = "sleeping"
             /\ ~push_task'.cancel]_vars

C19_Witness ==
    /\ mixer.is_running
    /\ pushes.cycle >= 2
    /\ pushes.after_failure
    /\ Len(pushes.attempts) = 2
    /\ ~pushes.attempts[1].ok
    /\ pushes.attempts[2].ok

\* The number of metric names of job j.
MetricsCount(j) ==
    Cardinality(UNION {mxcfg.hosts[h].metrics : h \in {g \in MixerHosts : JobName(mxcfg, g) = j}})

\* C20: a push cycle emits one metrics_pushed event for every push that
\* succeeded, in push order, carrying the job, the job's host names and its
\* metrics count, and none for a push that failed; no other step emits
\* metrics_pushed.
C20_PushedEventPerSuccess ==
    [][LET new == SubSeq(emitted', Len(emitted) + 1, Len(emitted'))
       IN IF PushStep
            THEN LET good == SelectSeq(pushes'.attempts, LAMBDA a : a.ok)
                 IN /\ Len(new) = Len(good)
                    /\ \A i \in DOMAIN new :
                          /\ new[i].name = "metrics_pushed"
                          /\ new[i].source = "mixer-" \o good[i].job
                          /\ new[i].data = [job_name |-> good[i].job,
                                            hosts |-> HostNames(mxcfg, JobHosts(mxcfg, good[i].job)),
                                            metrics_count |-> MetricsCount(good[i].job)]
            ELSE \A i \in DOMAIN new : new[i].name # "metrics_pushed"]_vars

C20_Witness ==
    /\ Len(pushes.attempts) = 2
    /\ ~pushes.attempts[1].ok
    /\ pushes.attempts[2].ok
    /\ emitted # <<>>
    /\ emitted[Len(emitted)].name = "metrics_pushed"
    /\ emitted[Len(emitted)].data = [job_name |-> "emulated", hosts |-> <<"h2">>, metrics_count |-> 1]
    /\ Cardinality({i \in DOMAIN emitted : emitted[i].name = "metrics_pushed"}) = 1

\* Two hosts of the list have the same name and resolve to the same job.
DuplicatePair ==
    \E a, b \in DOMAIN mxcfg.hosts :
        /\ a < b
        /\ mxcfg.hosts[a].name = mxcfg.hosts[b].name
        /\ (IF mxcfg.hosts[a].job_name = "" THEN mxcfg.default_job_name ELSE mxcfg.hosts[a].job_name)
             = (IF mxcfg.hosts[b].job_name = "" THEN mxcfg.default_job_name ELSE mxcfg.hosts[b].job_name)

\* C23: the constructor fails with MixerError when two hosts of the list have
\* the same name and resolve to the same job; otherwise it builds one host per
\* config, each grouped once, under the job it resolves to.
C23_DuplicateHostRejected ==
    mixer.built # "no" =>
        IF DuplicatePair
          THEN mixer.built = "MixerError"
          ELSE /\ mixer.built = "yes"
               /\ DOMAIN mhosts = DOMAIN mxcfg.hosts
               /\ \A h \in DOMAIN mxcfg.hosts :
                     Cardinality({<<j, k>> \in (DOMAIN mixer.job_hosts) \X (1..MaxHosts) :
                                     /\ k \in DOMAIN mixer.job_hosts[j]
                                     /\ mixer.job_hosts[j][k] = h}) = 1
               /\ \A j \in DOMAIN mixer.job_hosts : \A k \in DOMAIN mixer.job_hosts[j] :
                     j = (IF mxcfg.hosts[mixer.job_hosts[j][k]].job_name = ""
                            THEN mxcfg.default_job_name
                            ELSE mxcfg.hosts[mixer.job_hosts[j][k]].job_name)

C23_Witness ==
    /\ mixer.built = "MixerError"
    /\ Len(mxcfg.hosts) = 3
    /\ mxcfg.hosts[1].name = "h1" /\ mxcfg.hosts[1].job_name = ""
    /\ mxcfg.hosts[2].name = "h2" /\ mxcfg.hosts[2].job_name = "j1"
    /\ mxcfg.hosts[3].name = "h1" /\ mxcfg.hosts[3].job_name = "j1"
    /\ mxcfg.default_job_name = "j1"

\* The events feature_toggle has asked the bus to emit so far, in order: those
\* emitted and those whose emit task has not run yet.
ToggleEvents ==
    [i \in 1..(Len(emitted) + Len(scenarios.emit_tasks)) |->
        IF i =< Len(emitted) THEN emitted[i].name ELSE scenarios.emit_tasks[i - Len(emitted)]]

\* C25: a call of feature_toggle creates exactly one event when the state it
\* observes differs from the state observed by the call before it (off
\* before the first call and before start_time): feature_on when it turned
\* on, feature_off when it turned off, and none otherwise; every event
\* created is emitted once, in creation order, so that the events alternate,
\* beginning with feature_on.
C25_OneEventPerStateChange ==
    /\ [][scenarios'.calls # scenarios.calls =>
             scenarios'.created =
                IF scenarios'.observed = scenarios.observed THEN <<>>
                ELSE IF scenarios'.observed THEN <<"feature_on">> ELSE <<"feature_off">>]_vars
    /\ [][ToggleEvents' = ToggleEvents \/ ToggleEvents' = ToggleEvents \o scenarios'.created]_vars
    /\ [](\A i \in DOMAIN ToggleEvents :
            ToggleEvents[i] = IF i % 2 = 1 THEN "feature_on" ELSE "feature_off")

C25_Witness ==
    /\ scenarios.kind = "toggle"
    /\ scenarios.p.start_time = 1
    /\ scenarios.emit_tasks = <<>>
    /\ Len(emitted) = 2
    /\ emitted[1].name = "feature_on"
    /\ emitted[2].name = "feature_off"
    /\ scenarios.calls = 3

\* C30: the loop of a host with ttl = 0 goes through no iteration: it builds
\* no batch and does not invoke the update callback.
C30_ZeroTtlNeverTicks ==
    [][hcfg.ttl = 0 => (~TickStep /\ ~CallbackInvoked)]_vars

\* A call of switch_scenario_by_events, one made by a tick or for an event
\* that is not in events_config, and one made for a matching event.
SwitchStep == scenarios.kind = "switch" /\ scenarios'.calls = scenarios.calls + 1
TimeDrivenStep == SwitchStep /\ ~Matches(scenarios.cfg, scenarios'.ev)
MatchingStep == SwitchStep /\ Matches(scenarios.cfg, scenarios'.ev)

\* The events_config entry of the latest matching event, and the four stored
\* last_event_* values.
LatestEntry == scenarios.cfg.events[scenarios.latest.name]
NewEntry == scenarios.cfg.events[scenarios'.ev[1]]
LastEvent(st) ==
    [k \in {"last_event_params", "last_event_timestamp", "last_event_duration",
            "last_event_scenario"} |-> StorageGet(st, k, None)]

\* The call invoked no event scenario: it returned what the default scenario
\* returned, or a uniform sample in value_range.
UsedDefault(sc) ==
    /\ \A i \in DOMAIN sc.invoked : sc.invoked[i].as = "default"
    /\ \/ sc.ret.kind = "default"
       \/ sc.ret.kind = "uniform" /\ sc.ret.v \in {mcfg[Ctx].min, mcfg[Ctx].max}

\* C26: when the latest matching event had a scenario that was invoked
\* without raising, at time t0, a later time-driven call at time t invokes
\* that scenario with that event's parameters if the event has no duration or
\* t - t0 is at most the duration, and otherwise invokes no event scenario and
\* uses the default scenario or a uniform sample.
C26_EventScenarioForDuration ==
    [][(TimeDrivenStep /\ scenarios.latest.kind = "handled") =>
         IF LatestEntry.duration = None \/ now - scenarios.latest.t =< LatestEntry.duration[1]
           THEN /\ scenarios'.invoked # <<>>
                /\ scenarios'.invoked[1]
                     = [scenario |-> LatestEntry.scenario[1],
                        params |-> LatestEntry.scenario_data, as |-> "last"]
           ELSE UsedDefault(scenarios')]_vars

C26_Witness ==
    /\ scenarios.kind = "switch"
    /\ scenarios.latest = [kind |-> "handled", name |-> "feature_on", t |-> Clock0]
    /\ now = Clock0 + 1
    /\ scenarios.ev = None
    /\ scenarios.calls = 2
    /\ scenarios.ret.kind = "last"

\* C27 as stated: a matching event without a scenario leaves none of the four
\* last_event_* values stored.
C27_ResetClearsAll ==
    [][(MatchingStep /\ scenarios'.latest.kind = "reset") =>
         \A k \in DOMAIN LastEvent(storage'[Ctx]) : LastEvent(storage'[Ctx])[k] = None]_vars

\* C27: a matching event without a scenario sets the stored scenario,
\* timestamp and duration to None and leaves the stored parameters as they
\* are; that call, and every time-driven call while it is the latest matching
\* event, invokes no event scenario and uses the default scenario or a
\* uniform sample.
C27_ResetToDefault ==
    /\ [][(MatchingStep /\ scenarios'.latest.kind = "reset") =>
             /\ LastEvent(storage'[Ctx]) =
                   [LastEvent(storage[Ctx]) EXCEPT !["last_event_scenario"] = None,
                                                   !["last_event_timestamp"] = None,
                                                   !["last_event_duration"] = None]
             /\ UsedDefault(scenarios')]_vars
    /\ [][(TimeDrivenStep /\ scenarios.latest.kind = "reset") =>
             /\ UsedDefault(scenarios')
             /\ storage' = storage]_vars

C27_Witness ==
    /\ scenarios.kind = "switch"
    /\ scenarios.latest.kind = "reset"
    /\ scenarios.calls = 3
    /\ scenarios.ev = None
    /\ scenarios.ret.kind = "default"
    /\ LastEvent(storage[Ctx])["last_event_params"] = Some("pb")
    /\ LastEvent(storage[Ctx])["last_event_scenario"] = None

\* C28: when the scenario of a matching event raises, the call returns a
\* uniform sample in value_range, and the four last_event_* values either all
\* describe that event or are all as they were.
C28_StateConsistentOnRaise ==
    [][(MatchingStep /\ scenarios'.latest.kind = "raised") =>
         /\ scenarios'.ret.kind = "uniform"
         /\ scenarios'.ret.v \in {mcfg[Ctx].min, mcfg[Ctx].max}
         /\ \/ LastEvent(storage'[Ctx]) = LastEvent(storage[Ctx])
            \/ LastEvent(storage'[Ctx]) =
                  [last_event_params |-> Some(NewEntry.scenario_data),
                   last_event_timestamp |-> Some(now),
                   last_event_duration |-> NewEntry.duration,
                   last_event_scenario |-> NewEntry.scenario]]_vars

\* C29: when a matching event names a scenario that cannot be resolved, the
\* call uses the default scenario or a uniform sample, and invokes no
\* scenario with the parameters of that event.
C29_UnresolvedFallsBack ==
    [][(MatchingStep /\ scenarios'.latest.kind = "unresolved") =>
         /\ UsedDefault(scenarios')
         /\ \A i \in DOMAIN scenarios'.invoked :
               scenarios'.invoked[i].params # NewEntry.scenario_data]_vars

\* A step in which update_metrics_by_host is called, and the job of the host
\* that calls it.
DeliveryStep == mlog'.calls = mlog.calls + 1
JobOfHost(h) ==
    IF mxcfg.hosts[h].job_name = "" THEN mxcfg.default_job_name ELSE mxcfg.hosts[h].job_name

\* The _merged_metrics of job j hold an entry for metric m from a host other
\* than `name` with the label set `labels`.
HeldByOther(j, m, name, labels) ==
    /\ m \in DOMAIN mixer.merged_metrics[j]
    /\ \E g \in DOMAIN mixer.merged_metrics[j][m].hosts :
           g # name /\ mixer.merged_metrics[j][m].hosts[g].labels = labels

\* C24: when a host delivers a value for a metric for which the registry of
\* its job holds an entry from a different host with an equal label set, a
\* duplicate warning for that metric is logged and the entry of the
\* delivering host in that registry holds the new value.
C24_DuplicateWarnedAndStored ==
    [][DeliveryStep =>
         LET h == mlog'.host
             j == JobOfHost(h)
             name == mxcfg.hosts[h].name
         IN \A m \in mxcfg.hosts[h].metrics :
               HeldByOther(j, m, name, mxcfg.hosts[h].labels) =>
                  /\ \E g \in {mxcfg.hosts[k].name : k \in MixerHosts} :
                         <<m, g>> \in mlog'.warned
                  /\ name \in DOMAIN mixer'.merged_metrics[j][m].hosts
                  /\ mixer'.merged_metrics[j][m].hosts[name].value = mlog'.value]_vars

\* A step in which start() passes its guard, and one in which a stop() that
\* passed its guard returns.
MixerStartStep == ~mixer.is_running /\ mixer'.is_running
MixerStopReturn == mstop.pc # "done" /\ mstop'.pc = "done"

\* The jobs of the mixer: what the job names of its hosts resolve to.
OwnJobs ==
    {IF mxcfg.hosts[h].job_name = "" THEN mxcfg.default_job_name ELSE mxcfg.hosts[h].job_name :
        h \in DOMAIN mxcfg.hosts}

\* C21: with cleanup_on_start, start() makes the requests of cleanup_all_jobs
\* (a DELETE for every job group the gateway holds, or none when the listing
\* fails) in its own step, when no host runs and before the next push, and no
\* later step other than the return of stop() issues a DELETE; without
\* cleanup_on_start, start() issues no DELETE; start() on a running mixer
\* issues none, creates no task and changes nothing of the mixer.
C21_CleanupBeforeStart ==
    /\ [][MixerStartStep =>
             /\ \A h \in MixerHosts : ~mhosts'[h].is_running
             /\ pushes' = pushes
             /\ push_task'.pc = "created"
             /\ IF mxcfg.cleanup_on_start
                  THEN \/ gateway' = gateway
                       \/ /\ \A j \in DOMAIN gateway.deletes :
                                gateway'.deletes[j]
                                  = gateway.deletes[j] + (IF j \in gateway.jobs THEN 1 ELSE 0)
                          /\ gateway'.jobs \subseteq gateway.jobs
                  ELSE gateway' = gateway]_vars
    /\ [][gateway'.deletes # gateway.deletes => MixerStartStep \/ MixerStopReturn]_vars
    /\ [][(owner_calls' # owner_calls /\ mixer.is_running /\ mixer'.is_running) =>
             /\ gateway' = gateway
             /\ mixer' = mixer
             /\ loop_tasks' = loop_tasks
             /\ push_task' = push_task]_vars

C21_Witness ==
    /\ mxcfg.cleanup_on_start
    /\ mixer.is_running
    /\ gateway.deletes[Stale] = 1
    /\ gateway.deletes["j1"] = 1
    /\ gateway.jobs = {"emulated"}
    /\ owner_calls = 3
    /\ pushes.cycle = 1
    /\ push_task.pc = "created"

\* C22: with cleanup_on_finish, a stop() that passed its guard issues, when
\* it returns, exactly one DELETE for every job of the mixer, whichever of
\* them fail, and none for another job; without cleanup_on_finish it issues
\* none; stop() on a mixer that is not running issues none and changes
\* nothing.
C22_DeleteOwnJobsOnStop ==
    /\ [][MixerStopReturn =>
             IF mxcfg.cleanup_on_finish
               THEN /\ \A j \in DOMAIN gateway.deletes :
                         gateway'.deletes[j]
                           = gateway.deletes[j] + (IF j \in OwnJobs THEN 1 ELSE 0)
                    /\ gateway.jobs \ OwnJobs \subseteq gateway'.jobs
                    /\ gateway'.jobs \subseteq gateway.jobs
               ELSE gateway' = gateway]_vars
    /\ [][(gateway'.deletes # gateway.deletes /\ ~MixerStopReturn) => MixerStartStep]_vars
    /\ [][(owner_calls' # owner_calls /\ ~mixer.is_running /\ ~mixer'.is_running) =>
             /\ gateway' = gateway
             /\ mstop' = mstop
             /\ loop_tasks' = loop_tasks]_vars

C22_Witness ==
    /\ mxcfg.cleanup_on_finish
    /\ ~mxcfg.cleanup_on_start
    /\ mstop.pc = "done"
    /\ pushes.cycle = 1
    /\ \A i \in DOMAIN pushes.attempts : pushes.attempts[i].ok
    /\ gateway.deletes["j1"] = 1
    /\ gateway.deletes["emulated"] = 1
    /\ gateway.deletes[Stale] = 0
    /\ gateway.jobs = {Stale, "j1"}

\* C31: a time-driven update_value outside the metric's active window (before
\* its start, or past start + ttl for a finite ttl) returns None without
\* reaching the scenario and changes neither the value nor last_update; a
\* loop iteration leaves such a metric's value, last_update and storage as
\* they are and its name out of the batch, and invokes the update callback
\* with no batch when no metric is inside its window.
C31_UpdateOutsideWindow ==
    \A m \in Metrics : \A out \in mcfg[m].outs :
        LET u == UpdateValue(m, FALSE, out, now)
        IN ~InWindow(m) =>
              /\ u.ret = None
              /\ ~u.computed
              /\ u.value = mvalue[m]
              /\ u.last = last_update[m]

C31_TickOutsideWindow ==
    /\ \A m \in Metrics :
          (TickStep /\ ~InWindow(m)) =>
              /\ mvalue'[m] = mvalue[m]
              /\ last_update'[m] = last_update[m]
              /\ m \notin DOMAIN last_metrics_data'
              /\ is_running' => storage'[m] = storage[m]
    /\ (TickStep /\ \A m \in Metrics : ~InWindow(m)) =>
          /\ ~CallbackInvoked
          /\ last_metrics_data' = StorageEmpty

C31_NilOutsideWindow ==
    []C31_UpdateOutsideWindow /\ [][C31_TickOutsideWindow]_vars

\* C31 witness: m1 was computed inside its window, and the iteration just
\* made, past the window, published m2 without it.
C31_Witness ==
    /\ mcfg["m1"].ttl = Some(0)
    /\ now = Clock0 + 2
    /\ mvalue["m1"] = Some(30)
    /\ last_update["m1"] = Clock0 + 1
    /\ DOMAIN last_metrics_data = {"m2"}
    /\ last_update["m2"] = now

\* C32: a call of feature_toggle returns off_value while elapsed < start_time
\* and otherwise on_value exactly when (elapsed - start_time) mod (duration +
\* interval) is less than duration, elapsed being the time since the
\* metric's first call; and with start_time 10, duration 20, interval 10 and a
\* first call at 1000 the calls at 1005, 1015, 1025, 1035 and 1045 return
\* 0, 1, 1, 0, 1.
C32_ToggleStep ==
    (scenarios.kind = "toggle" /\ scenarios'.calls # scenarios.calls
       /\ ~ToggleInvalid(scenarios.p)) =>
        LET p == scenarios.p
            elapsed == now - storage'[Ctx]["start_timestamp"][1]
        IN scenarios'.ret.kind = "value" /\ scenarios'.ret.v =
              IF elapsed < p.start_time THEN p.off_value
              ELSE IF ((elapsed - p.start_time) % (p.duration + p.interval)) < p.duration
                     THEN p.on_value
                     ELSE p.off_value

C32_Example ==
    ToggleReturns([start_time |-> 10, duration |-> 20, interval |-> 10,
                   on_value |-> 1, off_value |-> 0],
                  StorageEmpty, <<1000, 1005, 1015, 1025, 1035, 1045>>)
      = <<Returns(0), Returns(0), Returns(1), Returns(1), Returns(0), Returns(1)>>

C32_ToggleValues ==
    [][C32_ToggleStep]_vars /\ []C32_Example

\* C32 witness: with start_time 1 and duration 1, a first call, a call at
\* elapsed = start_time, which returned on_value, and a call at cycle
\* position 1 = duration, which returned off_value.
C32_Witness ==
    /\ scenarios.kind = "toggle"
    /\ scenarios.p.start_time = 1 /\ scenarios.p.duration = 1
    /\ StorageGet(storage[Ctx], "start_timestamp", None) = Some(Clock0)
    /\ now = Clock0 + 2
    /\ ToggleEvents = <<"feature_on", "feature_off">>
    /\ scenarios.ret = Returns(scenarios.p.off_value)
    /\ scenarios.created = <<"feature_off">>

\* ---- C33
\* The value update_by_trend adds to before a compute: the stored
\* accumulated_value, or the metric's value when nothing is stored.
AccumulatedBefore ==
    IF "accumulated_value" \in DOMAIN storage[Ctx]
      THEN Some(storage[Ctx]["accumulated_value"])
      ELSE mvalue[Ctx]

\* A compute through update_by_trend that returned a number.
TrendStep ==
    /\ scenarios.kind = "trend"
    /\ scenarios'.calls = scenarios.calls + 1
    /\ scenarios'.ret.kind = "value"

\* C33: update_by_trend with trend up (down) returns and persists
\* accumulated_value + step with step in [min_step, max_step]
\* ([-max_step, -min_step]), so the persisted value never decreases
\* (increases); with trend hold it returns accumulated_value + step with step
\* in [-min_step, max_step] and leaves the storage unchanged.
C33_TrendStep ==
    TrendStep =>
      LET acc == AccumulatedBefore[1]
          p == scenarios.p
          v == scenarios'.ret.v
          trend == scenarios'.trend
      IN /\ trend = "up" =>
              /\ v - acc \in p.min .. p.max
              /\ storage'[Ctx] = StorageSet(storage[Ctx], "accumulated_value", v)
              /\ v >= acc
         /\ trend = "down" =>
              /\ acc - v \in p.min .. p.max
              /\ storage'[Ctx] = StorageSet(storage[Ctx], "accumulated_value", v)
              /\ v =< acc
         /\ trend = "hold" =>
              /\ v - acc \in (0 - p.min) .. p.max
              /\ storage'[Ctx] = storage[Ctx]
         /\ trend \in Trends
C33_TrendFrame == [][C33_TrendStep]_vars

\* A hold compute after a persisting one returned a sum that is not stored.
C33_Witness ==
    /\ scenarios.kind = "trend"
    /\ scenarios.trend = "hold"
    /\ scenarios.ret.kind = "value"
    /\ "accumulated_value" \in DOMAIN storage[Ctx]
    /\ scenarios.ret.v # storage[Ctx]["accumulated_value"]

\* ---- C39
\* C39: for a metric driven by update_by_trend the persisted
\* accumulated_value stays within the metric's value_range, and after every
\* up or down compute it equals the value the metric emitted.
C39_WithinRange ==
    (scenarios.kind = "trend" /\ "accumulated_value" \in DOMAIN storage[Ctx]) =>
        /\ storage[Ctx]["accumulated_value"] >= mcfg[Ctx].min
        /\ storage[Ctx]["accumulated_value"] =< mcfg[Ctx].max
C39_EmittedStep ==
    (TrendStep /\ scenarios'.trend \in {"up", "down"}) =>
        Some(storage'[Ctx]["accumulated_value"]) = mvalue'[Ctx]
C39_AccumulatedIsEmitted == []C39_WithinRange /\ [][C39_EmittedStep]_vars

\* ---- C40
\* C40: variety_selection never returns a value whose weight is zero: the
\* index it returns values[index] of is a valid index of values and has a
\* strictly positive weight.
C40_PositiveWeight ==
    (scenarios.kind = "variety" /\ scenarios.calls > 0 /\ scenarios.ret.kind = "value") =>
        /\ scenarios.index \in 0 .. Len(scenarios.p.values) - 1
        /\ scenarios.p.varieties[scenarios.index + 1] > 0

\* ---- C34
\* C34: update_metrics_by_host stores a delivered batch in the registry of
\* the job the delivering host belongs to, and leaves the registry of every
\* other job unchanged.
C34_StoredInOwnJob ==
    [][DeliveryStep =>
         LET h == mlog'.host
             j == JobOfHost(h)
             name == mxcfg.hosts[h].name
         IN /\ \A m \in mxcfg.hosts[h].metrics :
                  /\ m \in DOMAIN mixer'.merged_metrics[j]
                  /\ name \in DOMAIN mixer'.merged_metrics[j][m].hosts
                  /\ mixer'.merged_metrics[j][m].hosts[name] =
                        [value |-> mlog'.value, labels |-> mxcfg.hosts[h].labels]
            /\ \A k \in DOMAIN mixer.merged_metrics :
                  k # j => mixer'.merged_metrics[k] = mixer.merged_metrics[k]]_vars

\* ---- C35
\* C35: a host is pending only before it runs: once start() has set it
\* running, and after it has stopped, is_pending is false.
C35_PendingOnlyBeforeRun ==
    (is_running \/ \E i \in DOMAIN starts : starts[i].began) => ~is_pending

\* ---- C36
\* The _run_loop tasks of the host that are created or sleeping between two
\* iterations and have not been cancelled: the tasks that go on ticking.
ActiveLoops ==
    {t \in DOMAIN tasks : tasks[t].pc \in {"created", "sleep"} /\ ~tasks[t].cancel}

\* C36: at any time at most one main-loop task of the host is active, for
\* every interleaving of start() and stop() calls.
C36_OneActiveLoop == Cardinality(ActiveLoops) =< 1

\* ---- C37
\* A stop() of the mixer that passed its guard has returned.
StopHasReturned == mstop.pc = "done"

\* C37: after Mixer.stop() has returned, the mixer and every one of its hosts
\* are not running and stay so: no host, whether its start() task had run,
\* had not yet run or was waiting out start_time, delivers a batch or begins
\* ticking afterwards.
C37_AllStopped ==
    StopHasReturned =>
        /\ ~mixer.is_running
        /\ \A h \in MixerHosts : ~mhosts[h].is_running /\ mhosts[h].pc # "looping"
C37_NothingAfterStop ==
    StopHasReturned =>
        /\ mlog' = mlog
        /\ mixer'.merged_metrics = mixer.merged_metrics
C37_StoppedForGood == []C37_AllStopped /\ [][C37_NothingAfterStop]_vars

\* stop() has returned while the start() of a host that was told to stop is
\* still in its start_time delay, which is over, and another host had
\* delivered a batch.
C37_Witness ==
    /\ StopHasReturned
    /\ mlog.calls > 0
    /\ \E h \in MixerHosts : mhosts[h].pc = "delay" /\ now >= mhosts[h].wake

\* ---- C38
\* C38: no push to the gateway follows the cleanup of Mixer.stop(): the push
\* loop has finished when cleanup_mixer_jobs issues its DELETEs, and once
\* stop() has returned no push is made and no job group is re-created.
C38_CleanupStep ==
    gateway'.deletes # gateway.deletes =>
        /\ push_task.pc \in PushFinished
        /\ push_task'.pc \in PushFinished
C38_AfterCleanupStep ==
    StopHasReturned =>
        /\ pushes' = pushes
        /\ gateway' = gateway
        /\ push_task' = push_task
C38_NoPushAfterCleanup == [][C38_CleanupStep /\ C38_AfterCleanupStep]_vars

\* stop() has returned after a push cycle that created a job group: the push
\* loop was cancelled in its sleep and the group was deleted afterwards.
C38_Witness ==
    /\ StopHasReturned
    /\ pushes.cycle > 0
    /\ push_task.pc = "cancelled"
    /\ \E i \in DOMAIN pushes.attempts :
          /\ pushes.attempts[i].ok
          /\ gateway.deletes[pushes.attempts[i].job] > 0
          /\ pushes.attempts[i].job \notin gateway.jobs

=============================================================================
